---- MODULE Spec2Model ----
(***************************************************************************)
(* The metrics pipeline of cloudwatch-observatory (src/backend/app.py):    *)
(* the collector, the SQLite store, the ECOD anomaly detector, the health  *)
(* scorer, the background scheduler and the manual collection endpoint.    *)
(*                                                                         *)
(* Numbers.  Python floats are modelled by scaled integers: error_rate in  *)
(* thousandths (10 = 0.01), cpu_usage in hundredths (70 = 0.70),           *)
(* latencies in milliseconds, memory_usage in megabytes, anomaly scores    *)
(* in millionths.  The source reports the two counts (restarts, pods) in  *)
(* tenths, which int() truncates.  Time is counted in minutes.             *)
(***************************************************************************)
EXTENDS Integers, Sequences, FiniteSets, TLC

\* ------------------------------------------------------------------ bounds
MaxTicks == 2          \* scheduler ticks explored
MaxEvents == 1         \* outside events explored: collection requests, registrations,
                       \* demo inserts, clock advances outside the scheduler's sleep
MaxFaults == 1         \* failures explored: store errors, malformed source replies

\* --------------------------------------------------------------- constants
MinutesPerHour == 60
HoursPerDay == 24
SleepMinutes == 1      \* time.sleep(60)
LookbackHours == 24    \* get_metric_features(hours=24)
MinSamples == 10       \* len(features) < 10
RecentPoints == 5      \* features[:5]
DemoStepMinutes == 5   \* timedelta(minutes=5 * ...)
T0 == 3000             \* the clock when the process starts (minutes)

Names == {"svc-a", "svc-b", "svc-c"}
Workers == {"sched", "req"}

Min(a, b) == IF a <= b THEN a ELSE b

\* a sequence given as a function, as an explicit tuple
Tuple(s) == s \o << >>

Abs(a) == IF a < 0 THEN -a ELSE a

\* ------------------------------------------------------------------- time
\* datetime.isoformat(): the text "day T hour : minute", most significant
\* field first.  SQLite compares the stored texts, not the instants.
isoformat(t) ==
    << t \div (HoursPerDay * MinutesPerHour),
       (t \div MinutesPerHour) % HoursPerDay,
       t % MinutesPerHour >>

\* text comparison a < b of two timestamps, field by field
TextLess(a, b) ==
    \E i \in 1..Len(a) :
        /\ a[i] < b[i]
        /\ \A j \in 1..(i - 1) : a[j] = b[j]

\* ------------------------------------------------------- the metric source
\* A Prometheus reply, as the JSON object PrometheusClient.query returns.
Item(kind, num) == [kind |-> kind, num |-> num]
Sample(has_value, value) == [has_value |-> has_value, value |-> value]
Response(has_status, status, data, result) ==
    [has_status |-> has_status, status |-> status, data |-> data, result |-> result]

Ts == Item("num", 0)
R_ok(v) == Response(TRUE, "success", "dict", << Sample(TRUE, << Ts, Item("num", v) >>) >>)
\* what query() returns when requests.get or response.json() raises
R_error == Response(TRUE, "error", "dict", << >>)
R_empty == Response(TRUE, "success", "dict", << >>)
R_nostatus == Response(FALSE, "", "dict", << >>)
R_novalue == Response(TRUE, "success", "dict", << Sample(FALSE, << >>) >>)
R_short == Response(TRUE, "success", "dict", << Sample(TRUE, << Ts >>) >>)
R_text == Response(TRUE, "success", "dict", << Sample(TRUE, << Ts, Item("text", 0) >>) >>)
R_null == Response(TRUE, "success", "dict", << Sample(TRUE, << Ts, Item("null", 0) >>) >>)
R_nodata == Response(TRUE, "success", "null", << >>)
R_absent == Response(TRUE, "success", "absent", << >>)

Caught == {"KeyError", "IndexError", "ValueError"}

\* The exception the expression response['data']['result'][0]['value'][1],
\* guarded by response['status'] == 'success' and a non-empty result, raises
\* ("none" when it evaluates), before any handler.
ExtractRaises(response) ==
    IF ~response.has_status THEN "KeyError"
    ELSE IF response.status # "success" THEN "none"
    ELSE IF response.data = "null" THEN "TypeError"
    ELSE IF response.data = "absent" THEN "KeyError"
    ELSE IF response.result = << >> THEN "none"
    ELSE IF ~response.result[1].has_value THEN "KeyError"
    ELSE IF Len(response.result[1].value) < 2 THEN "IndexError"
    ELSE IF response.result[1].value[2].kind = "text" THEN "ValueError"
    ELSE IF response.result[1].value[2].kind = "null" THEN "TypeError"
    ELSE "none"

\* MetricsCollector._extract_value: [exc, value]; exc # "none" when the
\* exception leaves the function.
_extract_value(response) ==
    LET e == ExtractRaises(response)
        reads == /\ e = "none"
                 /\ response.status = "success"
                 /\ response.result # << >>
    IN  IF e \in Caught \/ e = "none"
        THEN [exc |-> "none",
              value |-> IF reads THEN response.result[1].value[2].num ELSE 0]
        ELSE [exc |-> e, value |-> 0]

Fields ==
    << "request_rate", "error_rate", "latency_p50", "latency_p95", "latency_p99",
       "cpu_usage", "memory_usage", "restart_count", "pod_count" >>
NFields == 9

NoMetrics ==
    [service_name |-> "", timestamp |-> 0,
     request_rate |-> 0, error_rate |-> 0, latency_p50 |-> 0, latency_p95 |-> 0,
     latency_p99 |-> 0, cpu_usage |-> 0, memory_usage |-> 0, restart_count |-> 0,
     pod_count |-> 0]

\* int(x) of a number given in tenths: truncation toward zero
int(x) == IF x >= 0 THEN x \div 10 ELSE -((-x) \div 10)

\* MetricsCollector.collect_service_metrics: readings is the sequence of the
\* nine replies in query order; the result is [exc, metrics].  The first
\* exception that leaves _extract_value leaves the function.
collect_service_metrics(service_name, readings, now) ==
    LET x == [i \in 1..NFields |-> _extract_value(readings[i])]
        bad == {i \in 1..NFields : x[i].exc # "none"}
    IN  IF bad # {}
        THEN [exc |-> x[CHOOSE i \in bad : \A j \in bad : i <= j].exc,
              metrics |-> NoMetrics]
        ELSE [exc |-> "none",
              metrics |->
                [service_name |-> service_name, timestamp |-> now,
                 request_rate |-> x[1].value, error_rate |-> x[2].value,
                 latency_p50 |-> x[3].value, latency_p95 |-> x[4].value,
                 latency_p99 |-> x[5].value, cpu_usage |-> x[6].value,
                 memory_usage |-> x[7].value, restart_count |-> int(x[8].value),
                 pod_count |-> int(x[9].value)]]

\* ------------------------------------------------------------------ store
\* A row of service_metrics for a collected record.
MetricRow(id, service_name, timestamp, m) ==
    [id |-> id, service_name |-> service_name, timestamp |-> timestamp,
     request_rate |-> m.request_rate, error_rate |-> m.error_rate,
     latency_p50 |-> m.latency_p50, latency_p95 |-> m.latency_p95,
     latency_p99 |-> m.latency_p99, cpu_usage |-> m.cpu_usage,
     memory_usage |-> m.memory_usage, restart_count |-> m.restart_count,
     pod_count |-> m.pod_count]

InsertAppend(table, row) == table \cup {row}

\* INSERT OR REPLACE under UNIQUE(service_name, timestamp): the row that
\* holds the key is deleted, the new row is inserted.
InsertOrReplace(table, row) ==
    {r \in table : ~(r.service_name = row.service_name /\ r.timestamp = row.timestamp)}
        \cup {row}

store_metrics_keep_latest(table, seq, metrics) ==
    {r \in table : r.service_name # metrics.service_name}
        \cup {MetricRow(seq + 1, metrics.service_name, isoformat(metrics.timestamp),
                        metrics)}

\* MetricsCollector.store_metrics: the table after the statement commits;
\* seq is sqlite_sequence for the table (AUTOINCREMENT).
store_metrics(table, seq, metrics) ==
    InsertOrReplace(table,
        MetricRow(seq + 1, metrics.service_name, isoformat(metrics.timestamp), metrics))

\* demo_data.insert_metrics: the same statement; the caller supplies the
\* timestamp text.
insert_metrics(table, seq, metrics) ==
    InsertOrReplace(table,
        MetricRow(seq + 1, metrics.service_name, metrics.timestamp, metrics))

\* --------------------------------------------------------------- detector
metric_names ==
    << "request_rate", "error_rate", "latency_p95", "cpu_usage", "memory_usage",
       "restart_count" >>
NFeatures == 6
ContaminationPct == 10     \* ECOD(contamination=0.1)

Feature(r) ==
    << r.request_rate, r.error_rate, r.latency_p95, r.cpu_usage, r.memory_usage,
       r.restart_count >>

\* ORDER BY timestamp DESC: a row's position is one more than the number of
\* rows that sort before it (equal timestamps in rowid order)
OrderDesc(rows) ==
    LET before == [r \in rows |->
                     Cardinality({q \in rows :
                         \/ TextLess(r.timestamp, q.timestamp)
                         \/ (q.timestamp = r.timestamp /\ q.id < r.id)})]
    IN  Tuple([i \in 1..Cardinality(rows) |-> CHOOSE r \in rows : before[r] = i - 1])

\* the WHERE clause of the window query
WindowRows_all_services(table, service_name, now, hours) ==
    {r \in table : TextLess(isoformat(now - hours * MinutesPerHour), r.timestamp)}

WindowRows(table, service_name, now, hours) ==
    {r \in table :
        /\ r.service_name = service_name
        /\ TextLess(isoformat(now - hours * MinutesPerHour), r.timestamp)}

get_metric_features_all_time(table, service_name, now) ==
    LET rows == OrderDesc({r \in table : r.service_name = service_name})
    IN  Tuple([i \in 1..Len(rows) |-> Feature(rows[i])])

\* AnomalyDetector.get_metric_features: the feature rows, most recent first
get_metric_features(table, service_name, now) ==
    LET rows == OrderDesc(WindowRows(table, service_name, now, LookbackHours))
    IN  Tuple([i \in 1..Len(rows) |-> Feature(rows[i])])

RECURSIVE SumSeq(_)
SumSeq(s) == IF s = << >> THEN 0 ELSE Head(s) + SumSeq(Tail(s))

RECURSIVE Gcd(_, _)
Gcd(a, b) == IF b = 0 THEN a ELSE Gcd(b, a % b)

RECURSIVE GcdSeq(_)
GcdSeq(s) == IF s = << >> THEN 0 ELSE Gcd(Abs(Head(s)), GcdSeq(Tail(s)))

Column(features, j) == Tuple([i \in 1..Len(features) |-> features[i][j]])

\* np.sign(skew(column)): the sign of the third central moment; 0 for a
\* constant column (pyod's skew() maps scipy's nan to 0).  The deviations
\* n*x - sum are divided by their gcd, which keeps the sign, and each cube
\* d^3 is summed as (d^2 div b) * d * b + (d^2 mod b) * d, which stays within
\* the machine integers for |d| <= b.
SkewSign(col) ==
    LET n == Len(col)
        s == SumSeq(col)
        d == Tuple([i \in 1..n |-> n * col[i] - s])
        g == GcdSeq(d)
        b == 10000
        q == [i \in 1..n |-> d[i] \div g]
        hi == SumSeq([i \in 1..n |-> ((q[i] * q[i]) \div b) * q[i]])
        lo == SumSeq([i \in 1..n |-> ((q[i] * q[i]) % b) * q[i]])
        top == hi + (lo \div b)
    IN  IF g = 0 THEN 0
        ELSE IF top > 0 THEN 1
        ELSE IF top < 0 THEN -1
        ELSE IF lo % b > 0 THEN 1 ELSE 0

\* ln(p) in millionths, for the primes a window size can have as factors
LnPrime(p) ==
    CASE p = 2 -> 693147
      [] p = 3 -> 1098612
      [] p = 5 -> 1609438
      [] p = 7 -> 1945910
      [] p = 11 -> 2397895
      [] p = 13 -> 2564949
      [] p = 17 -> 2833213
      [] p = 19 -> 2944439
      [] p = 23 -> 3135494

\* ln(k) in millionths as the sum over k's prime factors, so that equal
\* products of tail probabilities get equal scores
RECURSIVE LnMicro(_)
LnMicro(k) ==
    IF k = 1 THEN 0
    ELSE LET p == CHOOSE q \in 2..k :
                    /\ k % q = 0
                    /\ \A r \in 2..(q - 1) : k % r # 0
         IN  LnPrime(p) + LnMicro(k \div p)

\* One cell of ECOD's O matrix: max(U_l, U_r, U_skew), where
\* U_l = -ln(ecdf(x)), U_r = -ln(ecdf(-x)) and U_skew is U_l, U_l + U_r or
\* U_r for skew sign -1, 0, 1.
EcodCell(col, i, skew) ==
    LET n == Len(col)
        l == Cardinality({k \in 1..n : col[k] <= col[i]})
        r == Cardinality({k \in 1..n : col[k] >= col[i]})
    IN  IF skew = 0
        THEN 2 * LnMicro(n) - LnMicro(l) - LnMicro(r)
        ELSE LnMicro(n) - LnMicro(Min(l, r))

\* model.decision_scores_ after ECOD.fit(features)
decision_scores(features) ==
    LET n == Len(features)
        cols == Tuple([j \in 1..NFeatures |-> Column(features, j)])
        skew == Tuple([j \in 1..NFeatures |-> SkewSign(cols[j])])
    IN  Tuple([i \in 1..n |->
            SumSeq([j \in 1..NFeatures |-> EcodCell(cols[j], i, skew[j])])])

\* model.labels_: scores > percentile(scores, 100 * (1 - contamination)).
\* With linear interpolation between the order statistics at positions
\* floor and ceil of (n-1)*q, a score is above the threshold exactly when
\* more than floor((n-1)*q) scores are strictly below it.
labels_of(scores) ==
    LET n == Len(scores)
        lo == ((n - 1) * (100 - ContaminationPct)) \div 100
    IN  Tuple([i \in 1..n |->
            IF Cardinality({k \in 1..n : scores[k] < scores[i]}) > lo THEN 1 ELSE 0])

severity_inclusive(score) ==
    IF score >= 900000 THEN "critical"
    ELSE IF score >= 700000 THEN "high"
    ELSE IF score >= 500000 THEN "medium"
    ELSE "low"

\* detect_anomalies: "Determine severity"
severity_of(score) ==
    IF score > 900000 THEN "critical"
    ELSE IF score > 700000 THEN "high"
    ELSE IF score > 500000 THEN "medium"
    ELSE "low"

\* abs(value - mean) > 2 * std over the whole window, multiplied through
\* by n and squared: (n*v - sum)^2 > 4 * (n*sumsq - sum^2)
Deviates_inclusive(col, value) ==
    LET n == Len(col)
        s == SumSeq(col)
        sq == SumSeq([i \in 1..n |-> col[i] * col[i]])
    IN  (n * value - s) * (n * value - s) >= 4 * (n * sq - s * s)

Deviates(col, value) ==
    LET n == Len(col)
        s == SumSeq(col)
        sq == SumSeq([i \in 1..n |-> col[i] * col[i]])
    IN  (n * value - s) * (n * value - s) > 4 * (n * sq - s * s)

affected_of(features, idx) ==
    LET hit == Tuple([i \in 1..NFeatures |->
                        Deviates(Column(features, i), features[idx][i])])
        at == SelectSeq([i \in 1..NFeatures |-> i], LAMBDA i : hit[i])
    IN  Tuple([k \in 1..Len(at) |-> metric_names[at[k]]])

\* ', '.join(names)
RECURSIVE Join(_)
Join(names) ==
    IF Len(names) <= 1 THEN names
    ELSE << Head(names), ", " >> \o Join(Tail(names))

\* str.capitalize() on a severity
Capitalize(severity) ==
    CASE severity = "critical" -> "Critical"
      [] severity = "high" -> "High"
      [] severity = "medium" -> "Medium"
      [] severity = "low" -> "Low"

\* AnomalyDetector._generate_description
_generate_description(severity, affected_metrics) ==
    IF affected_metrics = << >>
    THEN << Capitalize(severity), " anomaly detected in service behavior" >>
    ELSE << Capitalize(severity), " anomaly: unusual patterns in " >>
            \o Join(affected_metrics)

\* The anomaly dict of one labelled observation, before it is stamped.
AnomalyAt(features, scores, service_name, idx) ==
    LET severity == severity_of(scores[idx])
        affected == affected_of(features, idx)
    IN  [service_name |-> service_name,
         anomaly_type |-> "metric_deviation",
         severity |-> severity,
         anomaly_score |-> scores[idx],
         affected_metrics |-> Join(affected),
         description |-> _generate_description(severity, affected)]

min_samples_nine(features) == Len(features) < MinSamples - 1

\* len(features) < 10
TooFewSamples(features) == Len(features) < MinSamples

detect_list_whole_window(features, service_name) ==
    IF TooFewSamples(features) THEN << >>
    ELSE LET scores == decision_scores(features)
             predictions == labels_of(scores)
             at == SelectSeq([i \in 1..Len(features) |-> i],
                             LAMBDA i : predictions[i] = 1)
         IN  Tuple([k \in 1..Len(at) |->
                        AnomalyAt(features, scores, service_name, at[k])])

\* AnomalyDetector.detect_anomalies, from the window read to the list of
\* anomaly dicts the loop over the recent points builds, in loop order.
detect_list(features, service_name) ==
    IF TooFewSamples(features) THEN << >>
    ELSE LET scores == decision_scores(features)
             predictions == labels_of(scores)
             m == Min(RecentPoints, Len(features))
             at == SelectSeq([i \in 1..m |-> i], LAMBDA i : predictions[i] = 1)
         IN  Tuple([k \in 1..Len(at) |->
                        AnomalyAt(features, scores, service_name, at[k])])

_store_anomaly_latest_only(table, anomaly, now) ==
    << [id |-> Len(table) + 1,
        service_name |-> anomaly.service_name,
        timestamp |-> anomaly.timestamp,
        anomaly_type |-> anomaly.anomaly_type,
        severity |-> anomaly.severity,
        anomaly_score |-> anomaly.anomaly_score,
        affected_metrics |-> anomaly.affected_metrics,
        description |-> anomaly.description,
        created_at |-> now] >>

_store_anomaly_unique(table, anomaly, now) ==
    IF \E i \in 1..Len(table) :
          /\ table[i].service_name = anomaly.service_name
          /\ table[i].timestamp = anomaly.timestamp
          /\ table[i].anomaly_score = anomaly.anomaly_score
    THEN table
    ELSE Append(table,
        [id |-> Len(table) + 1,
         service_name |-> anomaly.service_name,
         timestamp |-> anomaly.timestamp,
         anomaly_type |-> anomaly.anomaly_type,
         severity |-> anomaly.severity,
         anomaly_score |-> anomaly.anomaly_score,
         affected_metrics |-> anomaly.affected_metrics,
         description |-> anomaly.description,
         created_at |-> now])

\* AnomalyDetector._store_anomaly: INSERT INTO metrics_anomalies; the id is
\* the row's position, created_at the store's clock.
_store_anomaly(table, anomaly, now) ==
    Append(table,
        [id |-> Len(table) + 1,
         service_name |-> anomaly.service_name,
         timestamp |-> anomaly.timestamp,
         anomaly_type |-> anomaly.anomaly_type,
         severity |-> anomaly.severity,
         anomaly_score |-> anomaly.anomaly_score,
         affected_metrics |-> anomaly.affected_metrics,
         description |-> anomaly.description,
         created_at |-> now])

\* -------------------------------------------------------------- health API
\* x or 0, for a number x
OrZero(x) == IF x = 0 THEN 0 ELSE x

error_penalty_bonus(error_rate) ==
    IF error_rate > 100 THEN -30
    ELSE IF error_rate > 50 THEN -15
    ELSE IF error_rate > 10 THEN -5
    ELSE 0

\* calculate_health_score: "Penalize high error rates"
error_penalty(error_rate) ==
    IF error_rate > 100 THEN 30
    ELSE IF error_rate > 50 THEN 15
    ELSE IF error_rate > 10 THEN 5
    ELSE 0

latency_penalty_inclusive(latency_p95) ==
    IF latency_p95 >= 1000 THEN 25
    ELSE IF latency_p95 >= 500 THEN 15
    ELSE IF latency_p95 >= 200 THEN 5
    ELSE 0

\* calculate_health_score: "Penalize high latency (assuming ms)"
latency_penalty(latency_p95) ==
    IF latency_p95 > 1000 THEN 25
    ELSE IF latency_p95 > 500 THEN 15
    ELSE IF latency_p95 > 200 THEN 5
    ELSE 0

cpu_penalty_steep(cpu_usage) ==
    IF cpu_usage > 90 THEN 50
    ELSE IF cpu_usage > 70 THEN 10
    ELSE 0

\* calculate_health_score: "Penalize high CPU"
cpu_penalty(cpu_usage) ==
    IF cpu_usage > 90 THEN 20
    ELSE IF cpu_usage > 70 THEN 10
    ELSE 0

calculate_health_score(metric_row) ==
    LET error_rate == OrZero(metric_row.error_rate)
        latency_p95 == OrZero(metric_row.latency_p95)
        cpu_usage == OrZero(metric_row.cpu_usage)
        score == 100 - error_penalty(error_rate) - latency_penalty(latency_p95)
                     - cpu_penalty(cpu_usage)
    IN  IF score > 0 THEN score ELSE 0

status_above_only(health_score) ==
    IF health_score > 90 THEN "healthy"
    ELSE IF health_score > 70 THEN "degraded"
    ELSE IF health_score > 50 THEN "warning"
    ELSE "critical"

get_status_from_health(health_score) ==
    IF health_score >= 90 THEN "healthy"
    ELSE IF health_score >= 70 THEN "degraded"
    ELSE IF health_score >= 50 THEN "warning"
    ELSE "critical"

rows_of_any_age(table, service_name) ==
    {r \in table : service_name = "" \/ r.service_name = service_name}

\* get_health_summary: the rows the query selects, the latest of one service
\* (ORDER BY timestamp DESC LIMIT 1) or the latest of every service (the join
\* on MAX(timestamp))
LatestRows(table, service_name) ==
    {r \in table :
        /\ service_name = "" \/ r.service_name = service_name
        /\ \A o \in table :
              o.service_name = r.service_name => ~TextLess(r.timestamp, o.timestamp)}

\* get_health_summary: the dictionary appended for one row
SummaryEntry(row) ==
    [service_name |-> row.service_name,
     timestamp |-> row.timestamp,
     request_rate |-> row.request_rate,
     error_rate |-> row.error_rate,
     latency |-> [p50 |-> row.latency_p50, p95 |-> row.latency_p95,
                  p99 |-> row.latency_p99],
     resources |-> [cpu |-> row.cpu_usage, memory |-> row.memory_usage],
     restart_count |-> row.restart_count,
     pod_count |-> row.pod_count,
     health_score |-> calculate_health_score(row),
     status |-> get_status_from_health(calculate_health_score(row))]

\* ------------------------------------------------------------- query API
\* ORDER BY timestamp ASC (equal timestamps in rowid order)
OrderAsc(rows) ==
    LET before == [r \in rows |->
                     Cardinality({q \in rows :
                         \/ TextLess(q.timestamp, r.timestamp)
                         \/ (q.timestamp = r.timestamp /\ q.id < r.id)})]
    IN  Tuple([i \in 1..Cardinality(rows) |-> CHOOSE r \in rows : before[r] = i - 1])

HistoryRows_inclusive(table, service_name, now, hours) ==
    {r \in table :
        /\ r.service_name = service_name
        /\ ~TextLess(r.timestamp, isoformat(now - hours * MinutesPerHour))}

\* get_metrics_history: WHERE service_name = ? AND timestamp > ?
HistoryRows(table, service_name, now, hours) ==
    {r \in table :
        /\ r.service_name = service_name
        /\ TextLess(isoformat(now - hours * MinutesPerHour), r.timestamp)}

\* get_metrics_history: the dictionary built for one row
HistoryEntry(row) ==
    [timestamp |-> row.timestamp,
     request_rate |-> row.request_rate,
     error_rate |-> row.error_rate,
     latency_p50 |-> row.latency_p50,
     latency_p95 |-> row.latency_p95,
     latency_p99 |-> row.latency_p99,
     cpu_usage |-> row.cpu_usage,
     memory_usage |-> row.memory_usage,
     restart_count |-> row.restart_count,
     pod_count |-> row.pod_count]

\* GET /api/metrics/history: the status and the body
metrics_history(table, service_name, now, hours) ==
    IF service_name = ""
    THEN [status |-> 400, out |-> << >>]
    ELSE LET rows == OrderAsc(HistoryRows(table, service_name, now, hours))
         IN  [status |-> 200,
              out |-> Tuple([i \in 1..Len(rows) |-> HistoryEntry(rows[i])])]

AnomalyRows_any_service(table, service_name, now, hours) ==
    {table[i] : i \in {k \in 1..Len(table) :
        TextLess(isoformat(now - hours * MinutesPerHour), table[k].timestamp)}}

\* get_anomalies: WHERE [service_name = ? AND] timestamp > ?
AnomalyRows(table, service_name, now, hours) ==
    {table[i] : i \in {k \in 1..Len(table) :
        /\ service_name = "" \/ table[k].service_name = service_name
        /\ TextLess(isoformat(now - hours * MinutesPerHour), table[k].timestamp)}}

\* text.split(', ') if text else []
Split(text) == SelectSeq(text, LAMBDA t : t # ", ")

\* get_anomalies: the dictionary built for one row
AnomalyEntry(row) ==
    [id |-> row.id,
     service_name |-> row.service_name,
     timestamp |-> row.timestamp,
     anomaly_type |-> row.anomaly_type,
     severity |-> row.severity,
     anomaly_score |-> row.anomaly_score,
     affected_metrics |-> Split(row.affected_metrics),
     description |-> row.description]

\* ------------------------------------------------------------------ state
VARIABLES
    clock,              \* datetime.now(), in minutes
    events,             \* outside events so far
    faults,             \* failures so far
    services,           \* table services, in rowid order
    service_metrics,    \* table service_metrics, a set of rows
    metric_seq,         \* sqlite_sequence of service_metrics
    metrics_anomalies,  \* table metrics_anomalies, in rowid order
    wk,                 \* per worker: position and locals of the handler
    tick,               \* background_collector: services list, index, tick count, log
    resp,               \* the last response of trigger_collection
    reg_result,         \* the last response of register_service
    iso_metrics,        \* per entity: the metric rows its own operations alone produce
    iso_anomalies,      \* per entity: the anomaly rows its own operations alone produce
    probe               \* the last call of an operation on its own: arguments and result

vars ==
    << clock, events, faults, services, service_metrics, metric_seq,
       metrics_anomalies, wk, tick, resp, reg_result, iso_metrics, iso_anomalies,
       probe >>

\* ----------------------------------------------------------------- inputs
Values(v) ==
    [service_name |-> "", timestamp |-> 0,
     request_rate |-> v[1], error_rate |-> v[2], latency_p50 |-> v[3],
     latency_p95 |-> v[4], latency_p99 |-> v[5], cpu_usage |-> v[6],
     memory_usage |-> v[7], restart_count |-> v[8], pod_count |-> v[9]]

TypicalValues == << 100, 10, 50, 150, 300, 40, 500, 0, 3 >>
SpikeValues == << 100, 500, 50, 150, 300, 40, 500, 0, 3 >>

\* the number a query reports for field i when the value is v[i]; the two
\* counts are reported in tenths
Reading(v, i) == IF Fields[i] \in {"restart_count", "pod_count"} THEN 10 * v[i] ELSE v[i]
Source(v) == [i \in 1..NFields |-> R_ok(Reading(v, i))]
TypicalSource == Source(TypicalValues)
SpikeSource == Source(SpikeValues)
\* the cpu query answers with a JSON null where the number should be
MalformedSource == [TypicalSource EXCEPT ![6] = R_null]
SourceStates == {TypicalSource, SpikeSource, MalformedSource}

\* rows that demo_data.generate_historical_data left for an entity: one
\* every DemoStepMinutes before the start, ids from first_id on
History(name, count, first_id) ==
    {MetricRow(first_id + k - 1, name, isoformat(T0 - DemoStepMinutes * k),
               Values(TypicalValues)) : k \in 1..count}

HistoryA == 8
HistoryB == 9

ServiceRow(service_name, service_type, status, last_seen) ==
    [service_name |-> service_name, service_type |-> service_type,
     status |-> status, last_seen |-> last_seen]

Data(r) == [r EXCEPT !.id = 0]
RowsOf(table, e) == {r \in table : r.service_name = e}

IdleWorker(w) ==
    [pc |-> IF w = "sched" THEN "connect" ELSE "idle",
     ent |-> "", cur |-> NoMetrics, todo |-> << >>, found |-> 0, iso_todo |-> << >>]

NoProbe == [call |-> "none"]

NoResponse == [success |-> FALSE, status |-> 0, anomalies_detected |-> 0,
               metrics |-> NoMetrics]

\* The state once init_db has run, the registry holds its rows, the metrics
\* table holds `table` and the anomalies table holds `anomalies`.
Started(table, anomalies) ==
    /\ clock = T0
    /\ events = 0
    /\ faults = 0
    /\ services = << ServiceRow("svc-a", "microservice", "active",
                                isoformat(T0 - MinutesPerHour)),
                     ServiceRow("svc-c", "microservice", "inactive",
                                isoformat(T0 - MinutesPerHour)) >>
    /\ service_metrics = table
    /\ metric_seq = Cardinality(table)
    /\ metrics_anomalies = anomalies
    /\ wk = [w \in Workers |-> IdleWorker(w)]
    /\ tick = [list |-> << >>, idx |-> 0, count |-> 0, log |-> << >>]
    /\ resp = NoResponse
    /\ probe = NoProbe
    /\ reg_result = 0
    /\ iso_metrics = [e \in Names |-> {Data(r) : r \in RowsOf(table, e)}]
    /\ iso_anomalies =
          [e \in Names |-> SelectSeq(anomalies, LAMBDA a : a.service_name = e)]

Boot(table) == Started(table, << >>)

Init == Boot(History("svc-a", HistoryA, 1) \cup History("svc-b", HistoryB, HistoryA + 1))

\* ---------------------------------------------------------------- actions
store_vars == << service_metrics, metric_seq, metrics_anomalies, iso_metrics, iso_anomalies >>
env_vars == << clock, events, services, reg_result, probe >>

loop_abort_on_error(outcome) ==
    LET log == Append(tick.log, [entity |-> wk["sched"].ent, outcome |-> outcome])
    IN  IF tick.idx < Len(tick.list) /\ outcome = "done"
        THEN /\ tick' = [tick EXCEPT !.idx = @ + 1, !.log = log]
             /\ wk' = [wk EXCEPT !["sched"] =
                          [IdleWorker("sched") EXCEPT !.pc = "collect",
                                                      !.ent = tick.list[tick.idx + 1]]]
        ELSE /\ tick' = [tick EXCEPT !.log = log]
             /\ wk' = [wk EXCEPT !["sched"] = [IdleWorker("sched") EXCEPT !.pc = "sleep"]]

\* background_collector, the for loop: after a service is done, or after the
\* inner except caught its exception, the next service of the list, or the
\* sleep when the list is exhausted.
loop_next(outcome) ==
    LET log == Append(tick.log, [entity |-> wk["sched"].ent, outcome |-> outcome])
    IN  IF tick.idx < Len(tick.list)
        THEN /\ tick' = [tick EXCEPT !.idx = @ + 1, !.log = log]
             /\ wk' = [wk EXCEPT !["sched"] =
                          [IdleWorker("sched") EXCEPT !.pc = "collect",
                                                      !.ent = tick.list[tick.idx + 1]]]
        ELSE /\ tick' = [tick EXCEPT !.log = log]
             /\ wk' = [wk EXCEPT !["sched"] = [IdleWorker("sched") EXCEPT !.pc = "sleep"]]

respond_always_ok(outcome, found) ==
    /\ resp' = [success |-> TRUE, status |-> 200, anomalies_detected |-> found,
                metrics |-> wk["req"].cur]
    /\ wk' = [wk EXCEPT !["req"] = IdleWorker("req")]

\* trigger_collection, the return statements: the success body, or the
\* except branch's error body with status 500.
respond(outcome, found) ==
    /\ resp' = IF outcome = "done"
               THEN [success |-> TRUE, status |-> 200, anomalies_detected |-> found,
                     metrics |-> wk["req"].cur]
               ELSE [success |-> FALSE, status |-> 500, anomalies_detected |-> 0,
                     metrics |-> NoMetrics]
    /\ wk' = [wk EXCEPT !["req"] = IdleWorker("req")]

\* The end of one entity's collect/store/detect in worker w: outcome is
\* "done", or the step whose exception the handler's except caught.
End(w, outcome, found) ==
    IF w = "sched"
    THEN loop_next(outcome) /\ UNCHANGED resp
    ELSE respond(outcome, found) /\ UNCHANGED tick

Fault == faults < MaxFaults /\ faults' = faults + 1
Event == events < MaxEvents /\ events' = events + 1

all_services(table) == [i \in 1..Len(table) |-> table[i].service_name]

\* SELECT service_name FROM services WHERE status = "active"
active_services(table) ==
    LET rows == SelectSeq(table, LAMBDA r : r.status = "active")
    IN  [i \in 1..Len(rows) |-> rows[i].service_name]

\* background_collector: the services query that opens a tick
SchedList ==
    /\ wk["sched"].pc = "connect"
    /\ tick.count < MaxTicks
    /\ LET list == active_services(services)
       IN  IF list = << >>
           THEN /\ wk' = [wk EXCEPT !["sched"].pc = "sleep"]
                /\ tick' = [tick EXCEPT !.list = << >>, !.idx = 0, !.log = << >>]
           ELSE /\ wk' = [wk EXCEPT !["sched"].pc = "collect", !["sched"].ent = list[1]]
                /\ tick' = [tick EXCEPT !.list = list, !.idx = 1, !.log = << >>]
    /\ UNCHANGED << store_vars, env_vars, faults, resp >>

loop_exits_on_error(worker) == [worker EXCEPT !.pc = "exited"]

\* background_collector: the outer handler, "except Exception as e:" with its
\* time.sleep(60)
outer_except(worker) == [worker EXCEPT !.pc = "sleep"]

\* background_collector: the services query raises
SchedListFails ==
    /\ wk["sched"].pc = "connect"
    /\ tick.count < MaxTicks
    /\ Fault
    /\ wk' = [wk EXCEPT !["sched"] = outer_except(@)]
    /\ tick' = [tick EXCEPT !.list = << >>, !.idx = 0, !.log = << >>]
    /\ UNCHANGED << store_vars, env_vars, resp >>

\* background_collector: time.sleep(60), in the try body or in the except
SchedSleep ==
    /\ wk["sched"].pc = "sleep"
    /\ wk' = [wk EXCEPT !["sched"].pc = "connect"]
    /\ tick' = [list |-> << >>, idx |-> 0, count |-> tick.count + 1, log |-> << >>]
    /\ clock' = clock + SleepMinutes
    /\ UNCHANGED << store_vars, events, faults, services, reg_result, probe, resp >>

\* POST /api/collect/<service_name> arrives
ReqStart(e) ==
    /\ wk["req"].pc = "idle"
    /\ Event
    /\ wk' = [wk EXCEPT !["req"].pc = "collect", !["req"].ent = e]
    /\ UNCHANGED << store_vars, clock, faults, services, reg_result, probe, tick, resp >>

\* metrics = metrics_collector.collect_service_metrics(service_name)
Collect(w) ==
    /\ wk[w].pc = "collect"
    /\ \E src \in SourceStates :
          LET r == collect_service_metrics(wk[w].ent, src, clock)
          IN  IF r.exc = "none"
              THEN /\ wk' = [wk EXCEPT ![w].pc = "store", ![w].cur = r.metrics]
                   /\ UNCHANGED << tick, resp, faults >>
              ELSE Fault /\ End(w, "collect", 0)
    /\ UNCHANGED << store_vars, env_vars >>

Store_deferred(w) ==
    /\ wk[w].pc = "store"
    /\ wk' = [wk EXCEPT ![w].pc = "detect"]
    /\ UNCHANGED << store_vars, env_vars, faults, tick, resp >>

\* metrics_collector.store_metrics(metrics) commits
Store(w) ==
    /\ wk[w].pc = "store"
    /\ service_metrics' = store_metrics(service_metrics, metric_seq, wk[w].cur)
    /\ metric_seq' = metric_seq + 1
    /\ iso_metrics' = [iso_metrics EXCEPT ![wk[w].ent] = store_metrics(@, -1, wk[w].cur)]
    /\ wk' = [wk EXCEPT ![w].pc = "detect"]
    /\ UNCHANGED << metrics_anomalies, iso_anomalies, env_vars, faults, tick, resp >>

StoreFails_then_detects(w) ==
    /\ wk[w].pc = "store"
    /\ Fault
    /\ wk' = [wk EXCEPT ![w].pc = "detect"]
    /\ UNCHANGED << store_vars, env_vars, tick, resp >>

\* metrics_collector.store_metrics(metrics) raises sqlite3.Error
StoreFails(w) ==
    /\ wk[w].pc = "store"
    /\ Fault
    /\ End(w, "store", 0)
    /\ UNCHANGED << store_vars, env_vars >>

Stamped_without_attribution(a, now) ==
    [service_name |-> a.service_name, timestamp |-> isoformat(now),
     anomaly_type |-> a.anomaly_type, severity |-> a.severity,
     anomaly_score |-> a.anomaly_score, affected_metrics |-> << >>,
     description |-> a.description]

\* detect_anomalies: the anomaly dict with 'timestamp': datetime.now().isoformat()
Stamped(a, now) ==
    [service_name |-> a.service_name, timestamp |-> isoformat(now),
     anomaly_type |-> a.anomaly_type, severity |-> a.severity,
     anomaly_score |-> a.anomaly_score, affected_metrics |-> a.affected_metrics,
     description |-> a.description]

RECURSIVE StoreAll(_, _, _)
StoreAll(table, items, now) ==
    IF items = << >> THEN table
    ELSE StoreAll(_store_anomaly(table, Stamped(Head(items), now), now), Tail(items), now)

Detect_skips_reported(w) ==
    /\ wk[w].pc = "detect"
    /\ \E e \in {wk[w].ent} :
       \E todo \in {IF \E i \in 1..Len(metrics_anomalies) :
                          metrics_anomalies[i].service_name = e
                    THEN << >>
                    ELSE detect_list(get_metric_features(service_metrics, e, clock), e)} :
          IF todo = << >>
          THEN End(w, "done", 0) /\ UNCHANGED iso_anomalies
          ELSE /\ wk' = [wk EXCEPT ![w].pc = "persist", ![w].todo = todo,
                                   ![w].found = 0, ![w].iso_todo = todo]
               /\ UNCHANGED << tick, resp, iso_anomalies >>
    /\ UNCHANGED << service_metrics, metric_seq, metrics_anomalies, iso_metrics,
                    env_vars, faults >>

\* anomaly_detector.detect_anomalies(service_name), up to the first
\* _store_anomaly: the window read, the fit, the list of labelled points
Detect(w) ==
    /\ wk[w].pc = "detect"
    /\ \E e \in {wk[w].ent} :
       \E features \in {get_metric_features(service_metrics, e, clock)},
          apart \in {get_metric_features(iso_metrics[e], e, clock)} :
       \E todo \in {detect_list(features, e)} :
       \E alone \in {IF apart = features THEN todo ELSE detect_list(apart, e)} :
          IF todo = << >>
          THEN /\ End(w, "done", 0)
               /\ iso_anomalies' = [iso_anomalies EXCEPT ![e] = StoreAll(@, alone, clock)]
          ELSE /\ wk' = [wk EXCEPT ![w].pc = "persist", ![w].todo = todo,
                                   ![w].found = 0, ![w].iso_todo = alone]
               /\ UNCHANGED << tick, resp, iso_anomalies >>
    /\ UNCHANGED << service_metrics, metric_seq, metrics_anomalies, iso_metrics,
                    env_vars, faults >>

\* get_metric_features raises sqlite3.Error
DetectFails(w) ==
    /\ wk[w].pc = "detect"
    /\ Fault
    /\ End(w, "detect", 0)
    /\ UNCHANGED << store_vars, env_vars >>

\* one iteration of the loop that finds an anomaly: the dict is stamped and
\* _store_anomaly commits it
Persist(w) ==
    /\ wk[w].pc = "persist"
    /\ LET e == wk[w].ent
           k == wk[w].found + 1
           last == k = Len(wk[w].todo)
           alone == wk[w].iso_todo
           mine == IF k > Len(alone) THEN << >>
                   ELSE IF last THEN SubSeq(alone, k, Len(alone))
                   ELSE << alone[k] >>
       IN  /\ metrics_anomalies' =
                 _store_anomaly(metrics_anomalies, Stamped(wk[w].todo[k], clock), clock)
           /\ iso_anomalies' = [iso_anomalies EXCEPT ![e] = StoreAll(@, mine, clock)]
           /\ IF last
              THEN End(w, "done", k)
              ELSE /\ wk' = [wk EXCEPT ![w].found = k]
                   /\ UNCHANGED << tick, resp >>
    /\ UNCHANGED << service_metrics, metric_seq, iso_metrics, env_vars, faults >>

PersistFails_rolls_back(w) ==
    /\ wk[w].pc = "persist"
    /\ Fault
    /\ End(w, "persist", wk[w].found)
    /\ metrics_anomalies' =
          SubSeq(metrics_anomalies, 1, Len(metrics_anomalies) - wk[w].found)
    /\ UNCHANGED << service_metrics, metric_seq, iso_metrics, iso_anomalies, env_vars >>

\* _store_anomaly raises sqlite3.Error
PersistFails(w) ==
    /\ wk[w].pc = "persist"
    /\ Fault
    /\ End(w, "persist", wk[w].found)
    /\ UNCHANGED << store_vars, env_vars >>

register_unchecked(service_name, service_type) ==
    /\ reg_result' = 200
    /\ services' = Append(services,
           ServiceRow(service_name, service_type, "active", isoformat(clock)))

\* register_service: the INSERT into services; the UNIQUE constraint on
\* service_name raises IntegrityError, which is answered with 400; the
\* status column takes its default, 'active'
register(service_name, service_type) ==
    IF \E i \in 1..Len(services) : services[i].service_name = service_name
    THEN /\ reg_result' = 400
         /\ UNCHANGED services
    ELSE /\ reg_result' = 200
         /\ services' = Append(services,
                ServiceRow(service_name, service_type, "active", isoformat(clock)))

\* POST /api/services/register, without a service_type
register_service(service_name) ==
    /\ Event
    /\ register(service_name, "unknown")
    /\ UNCHANGED << store_vars, clock, faults, wk, tick, resp, probe >>

\* demo_data.py: insert_metrics(generate_realistic_metrics(service, timestamp)),
\* for a live point (now) or a historical one
DemoInsert(e, ts, v) ==
    /\ Event
    /\ LET m == [Values(v) EXCEPT !.service_name = e, !.timestamp = isoformat(ts)]
       IN  /\ service_metrics' = insert_metrics(service_metrics, metric_seq, m)
           /\ iso_metrics' = [iso_metrics EXCEPT ![e] = insert_metrics(@, -1, m)]
    /\ metric_seq' = metric_seq + 1
    /\ UNCHANGED << metrics_anomalies, iso_anomalies, clock, faults, services,
                    reg_result, probe, wk, tick, resp >>

\* time passes
Advance ==
    /\ Event
    /\ clock' = clock + 1
    /\ UNCHANGED << store_vars, faults, services, reg_result, probe, wk, tick, resp >>

Next ==
    \/ SchedList
    \/ SchedListFails
    \/ SchedSleep
    \/ \E e \in {"svc-a", "svc-b"} : ReqStart(e)
    \/ \E w \in Workers : Collect(w)
    \/ \E w \in Workers : Store(w)
    \/ \E w \in Workers : StoreFails(w)
    \/ \E w \in Workers : Detect(w)
    \/ \E w \in Workers : DetectFails(w)
    \/ \E w \in Workers : Persist(w)
    \/ \E w \in Workers : PersistFails(w)
    \/ \E e \in {"svc-a", "svc-b"} : register_service(e)
    \/ \E e \in {"svc-a", "svc-b"}, ts \in {clock, T0 - DemoStepMinutes} :
          DemoInsert(e, ts, SpikeValues)
    \/ Advance

Spec == Init /\ [][Next]_vars

\* the steps of the collector thread other than a detection that returns
SchedStep ==
    \/ SchedList
    \/ SchedListFails
    \/ SchedSleep
    \/ Collect("sched")
    \/ Store("sched")
    \/ StoreFails("sched")
    \/ DetectFails("sched")
    \/ Persist("sched")
    \/ PersistFails("sched")

\* The collector thread is never starved and time.sleep returns: weak
\* fairness of its steps.  Detect("sched") is enabled exactly when the thread
\* is at its detect step and always leaves it, so weak fairness of that step
\* is that the thread is again and again somewhere else.
LiveSpec ==
    /\ Spec
    /\ WF_vars(SchedStep)
    /\ []<>(wk["sched"].pc # "detect")

Key(r) == << r.service_name, r.timestamp >>
Payload(r) ==
    << r.request_rate, r.error_rate, r.latency_p50, r.latency_p95, r.latency_p99,
       r.cpu_usage, r.memory_usage, r.restart_count, r.pod_count >>
Booted == HistoryA + HistoryB

\* C1: the metrics table never holds two records with the same
\* (service_name, timestamp); every write (store_metrics or the demo's
\* insert_metrics) leaves exactly one record for the key it writes, the
\* newly written one, and leaves every record of another key as it was.
C1_UpsertKeepsKeysUnique ==
    /\ [](\A r, q \in service_metrics : Key(r) = Key(q) => r = q)
    /\ [][service_metrics' # service_metrics =>
            \E new \in service_metrics' :
                /\ new.id = metric_seq'
                /\ new \notin service_metrics
                /\ \/ \E w \in Workers :
                         /\ wk[w].pc = "store"
                         /\ Payload(new) = Payload(wk[w].cur)
                         /\ Key(new) = << wk[w].ent, isoformat(wk[w].cur.timestamp) >>
                   \/ Payload(new) = Payload(Values(SpikeValues))
                /\ {r \in service_metrics' : Key(r) = Key(new)} = {new}
                /\ {r \in service_metrics' : Key(r) # Key(new)}
                      = {r \in service_metrics : Key(r) # Key(new)}]_vars

\* a demo insert has replaced the typical payload of a historical record of
\* svc-a by its own, and the table holds fewer rows than were ever written
C1_Witness ==
    /\ Cardinality(service_metrics) < metric_seq
    /\ \E r \in service_metrics :
          /\ Key(r) = << "svc-a", isoformat(T0 - DemoStepMinutes) >>
          /\ r.id > Booted
          /\ r.error_rate = SpikeValues[2]
    /\ Cardinality(RowsOf(service_metrics, "svc-a")) = HistoryA

Running(w) == wk[w].pc \in {"collect", "store", "detect", "persist"}

\* C2: in a tick, the entities of the tick's list are attempted one after
\* the other whatever the outcome of the earlier ones: while the scheduler
\* works on the entity at position idx, every earlier entity of the list has
\* an outcome (done, or the step that failed), and when the tick ends after a
\* successful read of the list every entity of the list has one.
C2_FailureDoesNotStopTick ==
    /\ Running("sched") =>
          /\ tick.idx \in 1..Len(tick.list)
          /\ wk["sched"].ent = tick.list[tick.idx]
          /\ Len(tick.log) = tick.idx - 1
    /\ wk["sched"].pc = "sleep" => Len(tick.log) = Len(tick.list)
    /\ \A i \in 1..Len(tick.log) : tick.log[i].entity = tick.list[i]

\* a tick over two entities has ended: the first one's detection failed, the
\* second one was collected, stored and detected
C2_Witness ==
    /\ wk["sched"].pc = "sleep"
    /\ Len(tick.log) = 2
    /\ tick.log[1].outcome = "detect"
    /\ tick.log[2].outcome = "done"
    /\ \E r \in service_metrics : r.service_name = tick.log[2].entity /\ r.id > Booted

\* C3: the scheduler loop survives every error: whatever fails in tick k,
\* the list query or an inner step, the loop waits and tick k + 1 is reached
\* (up to the number of ticks explored).
C3_LoopNeverTerminates ==
    \A k \in 0..(MaxTicks - 1) : (tick.count = k) ~> (tick.count = k + 1)

\* the only failure of the run happened in the scheduler's first tick, and
\* the second tick is at work on an entity
C3_Witness ==
    /\ tick.count = 1
    /\ wk["sched"].pc = "collect"
    /\ faults = 1
    /\ events = 0

\* C5: a detection for an entity with fewer than 10 stored metric records
\* finds nothing: the step leaves the anomalies table unchanged and has no
\* anomaly to persist.
C5_NoDetectionBelowTenRecords ==
    [][\A w \in Workers :
          (/\ wk[w].pc = "detect"
           /\ wk'[w].pc # "detect"
           /\ Cardinality(RowsOf(service_metrics, wk[w].ent)) < 10)
          => /\ metrics_anomalies' = metrics_anomalies
             /\ wk'[w].pc # "persist"
             /\ (w = "req" /\ resp'.success) => resp'.anomalies_detected = 0]_vars

\* the first tick is over: svc-a was collected, stored and detected with 9
\* records, the most recent an outlier, and no anomaly was recorded
C5_Witness ==
    /\ tick.count = 0
    /\ wk["sched"].pc = "sleep"
    /\ tick.log = << [entity |-> "svc-a", outcome |-> "done"] >>
    /\ Cardinality(RowsOf(service_metrics, "svc-a")) = 9
    /\ \E r \in service_metrics :
          /\ Key(r) = << "svc-a", isoformat(T0) >>
          /\ r.error_rate = SpikeValues[2]
    /\ metrics_anomalies = << >>

Registered(e) == \E i \in 1..Len(services) : services[i].service_name = e
LastSeen(e) == services[CHOOSE i \in 1..Len(services) : services[i].service_name = e].last_seen

\* C9: once a worker has collected and stored the metrics of a registered
\* entity, the registry's last_seen of that entity is the collection time.
C9_LastSeenFollowsCollection ==
    \A w \in Workers :
        (wk[w].pc \in {"detect", "persist"} /\ Registered(wk[w].ent))
            => LastSeen(wk[w].ent) = isoformat(wk[w].cur.timestamp)

AnomalyData(a) == [a EXCEPT !.id = 0]
AnomaliesOf(e) ==
    LET rows == SelectSeq(metrics_anomalies, LAMBDA a : a.service_name = e)
    IN  Tuple([i \in 1..Len(rows) |-> AnomalyData(rows[i])])
IsoAnomalies(e) ==
    Tuple([i \in 1..Len(iso_anomalies[e]) |-> AnomalyData(iso_anomalies[e][i])])

\* C10: at every moment, in every interleaving of the scheduler and a
\* request, the metric records and the anomaly records of an entity (row ids
\* aside) are those that the entity's own operations produce on a store that
\* holds this entity alone.
C10_EntitiesDoNotInterfere ==
    \A e \in Names :
        /\ {Data(r) : r \in RowsOf(service_metrics, e)} = iso_metrics[e]
        /\ AnomaliesOf(e) = IsoAnomalies(e)

\* the scheduler persists an anomaly of svc-a while a request persists one
\* of svc-b
C10_Witness ==
    /\ wk["sched"].pc = "persist" /\ wk["sched"].ent = "svc-a"
    /\ wk["req"].pc = "persist" /\ wk["req"].ent = "svc-b"

\* anomaly scores (millionths) below, on and above every severity threshold
ScoreSamples ==
    {0, 499999, 500000, 500001, 600000, 700000, 700001, 900000, 900001, 950000,
     2302585}
SeverityRank(severity) ==
    CASE severity = "low" -> 1
      [] severity = "medium" -> 2
      [] severity = "high" -> 3
      [] severity = "critical" -> 4
\* the severity whose threshold is the greatest one strictly below score
SeverityFor(score) ==
    LET thresholds == {<< 900000, "critical" >>, << 700000, "high" >>,
                       << 500000, "medium" >>}
        passed == {t \in thresholds : score > t[1]}
    IN  IF passed = {} THEN "low"
        ELSE (CHOOSE t \in passed : \A o \in passed : o[1] <= t[1])[2]

\* C11: the severity of an anomaly depends on its score alone, by the strict
\* thresholds 0.9 (critical), 0.7 (high), 0.5 (medium), else low; a higher
\* score never gets a lower severity, 0.95 is critical and 0.6 is medium;
\* every stored anomaly has the severity of its score and kind
\* 'metric_deviation'.
C11_SeverityByScore ==
    /\ severity_of(950000) = "critical"
    /\ severity_of(600000) = "medium"
    /\ \A x \in ScoreSamples : severity_of(x) = SeverityFor(x)
    /\ \A x, y \in ScoreSamples :
          x <= y => SeverityRank(severity_of(x)) <= SeverityRank(severity_of(y))
    /\ \A i \in 1..Len(metrics_anomalies) :
          /\ metrics_anomalies[i].anomaly_type = "metric_deviation"
          /\ metrics_anomalies[i].severity \in {"low", "medium", "high", "critical"}
          /\ metrics_anomalies[i].severity = SeverityFor(metrics_anomalies[i].anomaly_score)

\* a detection has stored an anomaly whose score is above 0.9, as critical
C11_Witness ==
    \E i \in 1..Len(metrics_anomalies) :
        /\ metrics_anomalies[i].anomaly_score > 900000
        /\ metrics_anomalies[i].severity = "critical"

Keys(table) == {Key(r) : r \in table}

\* C14: the store only grows: every step of the scheduler, of a request or
\* of the demo writer leaves every anomaly record in place and unchanged
\* (the old table is a prefix of the new one) and keeps every
\* (service_name, timestamp) key of the metrics table; a metric record
\* disappears only when the step writes a new record under the same key.
C14_StoreOnlyGrows ==
    [][/\ Len(metrics_anomalies') >= Len(metrics_anomalies)
       /\ SubSeq(metrics_anomalies', 1, Len(metrics_anomalies)) = metrics_anomalies
       /\ Keys(service_metrics) \subseteq Keys(service_metrics')
       /\ Cardinality(service_metrics') >= Cardinality(service_metrics)
       /\ \A r \in service_metrics :
             r \notin service_metrics' =>
                \E new \in service_metrics' \ service_metrics :
                    /\ Key(new) = Key(r)
                    /\ new.id = metric_seq'
                    /\ metric_seq' = metric_seq + 1]_vars

\* after two ticks an anomaly record is stored, the metrics table has
\* gained keys, and one of its records has been replaced under its key
C14_Witness ==
    /\ tick.count = MaxTicks
    /\ Len(metrics_anomalies) >= 1
    /\ metrics_anomalies[1].id = 1
    /\ Cardinality(service_metrics) > Booted
    /\ Cardinality(service_metrics) < metric_seq

\* C15: the step that ends a manually triggered collection answers, when
\* nothing failed, with success, the record it collected for the entity and
\* the number of anomalies its detect run stored; when store_metrics, the
\* window read or _store_anomaly raised, it answers with an error result
\* (success false, status 500), and that step leaves the scheduler's
\* position and tick, the registry and both tables as they were.
C15_ManualTrigger ==
    [][(wk["req"].pc # "idle" /\ wk'["req"].pc = "idle") =>
          IF faults' = faults
          THEN /\ resp'.success
               /\ resp'.status = 200
               /\ resp'.metrics = wk["req"].cur
               /\ resp'.metrics.service_name = wk["req"].ent
               /\ IF wk["req"].pc = "persist"
                  THEN /\ resp'.anomalies_detected = Len(wk["req"].todo)
                       /\ wk["req"].found = Len(wk["req"].todo) - 1
                       /\ Len(metrics_anomalies') = Len(metrics_anomalies) + 1
                  ELSE /\ wk["req"].pc = "detect"
                       /\ resp'.anomalies_detected = 0
                       /\ metrics_anomalies' = metrics_anomalies
          ELSE /\ ~resp'.success
               /\ resp'.status = 500
               /\ wk'["sched"] = wk["sched"]
               /\ wk'["sched"].pc # "exited"
               /\ tick' = tick
               /\ services' = services
               /\ service_metrics' = service_metrics
               /\ metrics_anomalies' = metrics_anomalies]_vars

\* a request for svc-b stored its record and then failed, in the window
\* read or in _store_anomaly: it answered 500, nothing of svc-b's anomalies
\* was stored, and the scheduler went on to collect svc-a in a later tick
C15_Witness ==
    /\ resp.status = 500
    /\ ~resp.success
    /\ wk["req"].pc = "idle"
    /\ \E r \in service_metrics : Key(r) = << "svc-b", isoformat(T0) >>
    /\ AnomaliesOf("svc-b") = << >>
    /\ tick.count = MaxTicks
    /\ \E r \in service_metrics : Key(r) = << "svc-a", isoformat(T0 + SleepMinutes) >>

StatusIn(table, e) == {table[i].status : i \in {k \in 1..Len(table) : table[k].service_name = e}}
Range(list) == {list[i] : i \in 1..Len(list)}

\* C16: the read that opens a tick takes, from the registry as it is at
\* that read, exactly the entities whose status is 'active', each once; the
\* scheduler only ever works on an entity of that list, which is registered
\* as active, and records of an entity with another status are never
\* produced by it.
C16_ActiveEntitiesOnly ==
    /\ [][(wk["sched"].pc = "connect" /\ wk'["sched"].pc # "connect"
             /\ faults' = faults) =>
             /\ Range(tick'.list) = {e \in Names : "active" \in StatusIn(services, e)}
             /\ Len(tick'.list) = Cardinality(Range(tick'.list))
             /\ IF tick'.list = << >>
                THEN wk'["sched"].pc = "sleep"
                ELSE wk'["sched"].pc = "collect" /\ wk'["sched"].ent = tick'.list[1]]_vars
    /\ [](Running("sched") =>
             /\ wk["sched"].ent \in Range(tick.list)
             /\ StatusIn(services, wk["sched"].ent) = {"active"})
    /\ [](\A i \in 1..Len(tick.log) : StatusIn(services, tick.log[i].entity) = {"active"})
    /\ [](RowsOf(service_metrics, "svc-c") = {} /\ AnomaliesOf("svc-c") = << >>)

\* svc-b was registered after the first tick had read the registry: the
\* first tick collected svc-a alone, the second tick lists svc-a and svc-b
\* and has stored a record of svc-b
C16_Witness ==
    /\ tick.count = 1
    /\ tick.list = << "svc-a", "svc-b" >>
    /\ resp = NoResponse
    /\ \E r \in service_metrics : Key(r) = << "svc-a", isoformat(T0) >>
    /\ ~\E r \in service_metrics : Key(r) = << "svc-b", isoformat(T0) >>
    /\ \E r \in service_metrics : Key(r) = << "svc-b", isoformat(T0 + SleepMinutes) >>
    /\ StatusIn(services, "svc-c") = {"inactive"}

\* ------------------------------------------ the metric collector on its own
\* every shape of reply a query can give for a reading whose number is v
Shapes(v) ==
    {R_ok(v), R_error, R_empty, R_nostatus, R_novalue, R_short, R_text, R_null,
     R_nodata, R_absent}

\* the nine replies of one collection: two of them of any shape, the others
\* well-formed; the counts are reported with a fraction
CollectValues == << 100, 10, 50, 150, 300, 40, 500, 17, 39 >>
CollectInputs ==
    {[k \in 1..NFields |->
         IF k = i THEN a ELSE IF k = j THEN b ELSE R_ok(CollectValues[k])] :
        i \in 1..NFields, j \in 1..NFields, a \in Shapes(7), b \in Shapes(8)}

\* metrics_collector.collect_service_metrics(service_name) against a source
\* that answers with readings
CallCollect(service_name, readings) ==
    /\ probe.call = "none"
    /\ probe' = [call |-> "collect_service_metrics",
                 readings |-> readings,
                 out |-> collect_service_metrics(service_name, readings, clock)]
    /\ UNCHANGED << store_vars, clock, events, faults, services, reg_result, wk,
                    tick, resp >>

CollectNext == \E readings \in CollectInputs : CallCollect("svc-a", readings)

SpecCollect == Init /\ [][CollectNext]_vars

\* a reply from which a number can be read
Usable(response) ==
    /\ response.has_status /\ response.status = "success" /\ response.data = "dict"
    /\ response.result # << >>
    /\ response.result[1].has_value
    /\ Len(response.result[1].value) >= 2
    /\ response.result[1].value[2].kind = "num"

\* the value a usable reply of field k gives the record
ValueRead(response, k) ==
    LET num == response.result[1].value[2].num
    IN  IF k <= 7 THEN num ELSE int(num)

\* C4: every collection returns a record, whatever the nine replies are;
\* a field whose reply is failed, error-status, empty, without a value or
\* malformed is 0, and every other field keeps the value that was read.
C4_CollectNeverFails ==
    probe.call = "collect_service_metrics" =>
        /\ probe.out.exc = "none"
        /\ \A k \in 1..NFields :
              LET got == CASE k = 1 -> probe.out.metrics.request_rate
                           [] k = 2 -> probe.out.metrics.error_rate
                           [] k = 3 -> probe.out.metrics.latency_p50
                           [] k = 4 -> probe.out.metrics.latency_p95
                           [] k = 5 -> probe.out.metrics.latency_p99
                           [] k = 6 -> probe.out.metrics.cpu_usage
                           [] k = 7 -> probe.out.metrics.memory_usage
                           [] k = 8 -> probe.out.metrics.restart_count
                           [] k = 9 -> probe.out.metrics.pod_count
              IN  got = IF Usable(probe.readings[k])
                        THEN ValueRead(probe.readings[k], k) ELSE 0

\* ------------------------------------------------- the health API on its own
\* readings on, just above and far from every bracket boundary
ErrorRates == {-1, 0, 10, 11, 50, 51, 100, 101, 1000}
Latencies == {0, 200, 201, 500, 501, 1000, 1001, 60000}
CpuUsages == {0, 70, 71, 90, 91, 400}

ScoreTables ==
    {{MetricRow(1, "svc-a", isoformat(T0 - DemoStepMinutes), Values(SpikeValues)),
      MetricRow(2, "svc-a", isoformat(T0),
                Values(<< 100, e, 50, l, 300, c, 500, 0, 3 >>)),
      MetricRow(3, "svc-b", isoformat(T0), Values(TypicalValues))} :
        e \in ErrorRates, l \in Latencies, c \in CpuUsages}

ScoreInit == \E table \in ScoreTables : Boot(table)

\* GET /api/health/summary[?service=...]: one entry per selected row, in the
\* order the query returns the rows, which without ORDER BY is any order
get_health_summary(service_name) ==
    /\ LET rows == LatestRows(service_metrics, service_name)
       IN  \E order \in [1..Cardinality(rows) -> rows] :
              /\ \A i, j \in 1..Cardinality(rows) : order[i] = order[j] => i = j
              /\ probe' = [call |-> "get_health_summary",
                           service |-> service_name,
                           out |-> Tuple([i \in 1..Cardinality(rows) |->
                                             SummaryEntry(order[i])])]
    /\ UNCHANGED << store_vars, clock, events, faults, services, reg_result, wk,
                    tick, resp >>

ScoreNext == \E service_name \in Names \cup {""} : get_health_summary(service_name)

SpecScore == ScoreInit /\ [][ScoreNext]_vars

Summarised == probe.call = "get_health_summary"

\* C6: every entry of a health summary carries a health score in [0, 100]:
\* penalties only subtract from 100, and the result is never below 0.
C6_ScoreInRange ==
    Summarised =>
        \A i \in 1..Len(probe.out) :
            probe.out[i].health_score >= 0 /\ probe.out[i].health_score <= 100

\* a summary holds an entry on which every metric pays its largest penalty
C6_Witness ==
    /\ Summarised
    /\ \E i \in 1..Len(probe.out) :
          /\ probe.out[i].error_rate > 100
          /\ probe.out[i].latency.p95 > 1000
          /\ probe.out[i].resources.cpu > 90
          /\ probe.out[i].health_score = 25

\* the penalty brackets of the three metrics: << boundary, penalty >>
ErrorBrackets == {<< 100, 30 >>, << 50, 15 >>, << 10, 5 >>}
LatencyBrackets == {<< 1000, 25 >>, << 500, 15 >>, << 200, 5 >>}
CpuBrackets == {<< 90, 20 >>, << 70, 10 >>}

\* the penalty of the worst bracket that v matches, strictly above its boundary
WorstPenalty(v, brackets) ==
    LET matched == {b \in brackets : v > b[1]}
    IN  IF matched = {} THEN 0
        ELSE (CHOOSE b \in matched : \A o \in matched : o[2] <= b[2])[2]

\* C7: the health score of every summary entry is 100 minus, for each of
\* error_rate, latency_p95 and cpu_usage, the penalty of the worst bracket
\* matched under strict inequality; a value on a boundary does not match that
\* boundary's bracket, and the penalties of different metrics add.
C7_ExactPenalties ==
    Summarised =>
        \A i \in 1..Len(probe.out) :
            LET entry == probe.out[i]
            IN  entry.health_score =
                    100 - WorstPenalty(entry.error_rate, ErrorBrackets)
                        - WorstPenalty(entry.latency.p95, LatencyBrackets)
                        - WorstPenalty(entry.resources.cpu, CpuBrackets)

\* a summary entry whose three readings lie exactly on boundaries (0.05,
\* 1000 ms, 0.90) and pay the penalties of the brackets below them: 5, 15, 10
C7_Witness ==
    /\ Summarised
    /\ \E i \in 1..Len(probe.out) :
          /\ probe.out[i].error_rate = 50
          /\ probe.out[i].latency.p95 = 1000
          /\ probe.out[i].resources.cpu = 90
          /\ probe.out[i].health_score = 70

StatusOf(h) ==
    CHOOSE st \in {"healthy", "degraded", "warning", "critical"} :
        /\ st = "healthy" <=> h >= 90
        /\ st = "degraded" <=> (70 <= h /\ h < 90)
        /\ st = "warning" <=> (50 <= h /\ h < 70)
        /\ st = "critical" <=> h < 50

\* C8: get_status_from_health maps every score to healthy (>= 90), degraded
\* (70 to below 90), warning (50 to below 70) or critical (below 50), and
\* every entry of a health summary carries the status of its own health_score.
C8_StatusMapping ==
    /\ \A h \in 0..100 : get_status_from_health(h) = StatusOf(h)
    /\ Summarised =>
          \A i \in 1..Len(probe.out) :
              probe.out[i].status = StatusOf(probe.out[i].health_score)

\* a summary of all services with a degraded entry whose score is exactly 70
\* next to a healthy entry
C8_Witness ==
    /\ Summarised
    /\ \E i, j \in 1..Len(probe.out) :
          /\ probe.out[i].health_score = 70 /\ probe.out[i].status = "degraded"
          /\ probe.out[j].health_score >= 90 /\ probe.out[j].status = "healthy"

\* entry is the summary entry of the stored record of entity e that has the
\* greatest timestamp
IsLatestOf(entry, e) ==
    /\ entry.service_name = e
    /\ \E r \in RowsOf(service_metrics, e) :
          /\ r.timestamp = entry.timestamp
          /\ \A o \in RowsOf(service_metrics, e) :
                o.timestamp = r.timestamp \/ TextLess(o.timestamp, r.timestamp)
          /\ << entry.request_rate, entry.error_rate, entry.latency.p50,
                entry.latency.p95, entry.latency.p99, entry.resources.cpu,
                entry.resources.memory, entry.restart_count, entry.pod_count >>
                = Payload(r)

\* C17: a health summary for one entity holds at most one entry, that of the
\* entity's record with the greatest timestamp, and none when the entity has
\* no record; a summary for all holds exactly one entry for every entity
\* that has a record, that of its record with the greatest timestamp.
C17_LatestPerEntity ==
    Summarised =>
        LET out == probe.out
            stored == {e \in Names : RowsOf(service_metrics, e) # {}}
        IN  IF probe.service # ""
            THEN /\ Len(out) = IF probe.service \in stored THEN 1 ELSE 0
                 /\ \A i \in 1..Len(out) : IsLatestOf(out[i], probe.service)
            ELSE /\ {out[i].service_name : i \in 1..Len(out)} = stored
                 /\ Len(out) = Cardinality(stored)
                 /\ \A i \in 1..Len(out) : IsLatestOf(out[i], out[i].service_name)

\* a summary for all entities: svc-a, which has an older record too, is
\* there with its record of the start time, svc-b with its only record, and
\* svc-c, which has none, is not
C17_Witness ==
    /\ Summarised
    /\ probe.service = ""
    /\ Len(probe.out) = 2
    /\ Cardinality(RowsOf(service_metrics, "svc-a")) = 2
    /\ RowsOf(service_metrics, "svc-c") = {}
    /\ \E i, j \in 1..2 :
          /\ probe.out[i].service_name = "svc-a"
          /\ probe.out[i].timestamp = isoformat(T0)
          /\ probe.out[j].service_name = "svc-b"

\* ------------------------------------- one entity's window, request by request
PriorRecords == 15

\* a normal point whose error rate is 0.011, and a point whose cpu is 0.9
NearTypicalValues == << 100, 11, 50, 150, 300, 40, 500, 0, 3 >>
CpuHighValues == << 100, 10, 50, 150, 300, 90, 500, 0, 3 >>

\* the historical rows of an entity where the p-th most recent one holds v
HistoryWith(name, count, first_id, p, v) ==
    {MetricRow(first_id + k - 1, name, isoformat(T0 - DemoStepMinutes * k),
               Values(IF k = p THEN v ELSE TypicalValues)) : k \in 1..count}

VariedPositions == {1, 2, 4, 5, PriorRecords}

WindowTables ==
    {HistoryWith("svc-a", PriorRecords, 1, p, v)
        \cup History("svc-b", HistoryB, PriorRecords + 1) :
        p \in VariedPositions \cup {0}, v \in {NearTypicalValues, CpuHighValues}}

\* anomaly records that earlier detections left: << entity, minutes ago >>
EarlierDetections ==
    << << "svc-a", 90 >>, << "svc-b", 60 >>, << "svc-a", 30 >>, << "svc-b", 30 >> >>

EarlierAnomaly(service_name) ==
    [service_name |-> service_name,
     anomaly_type |-> "metric_deviation",
     severity |-> severity_of(LnMicro(MinSamples)),
     anomaly_score |-> LnMicro(MinSamples),
     affected_metrics |-> Join(<< "error_rate", "cpu_usage" >>),
     description |-> _generate_description(severity_of(LnMicro(MinSamples)),
                                           << "error_rate", "cpu_usage" >>)]

RECURSIVE AnomalyHistory(_)
AnomalyHistory(n) ==
    IF n = 0 THEN << >>
    ELSE _store_anomaly(AnomalyHistory(n - 1),
                        Stamped(EarlierAnomaly(EarlierDetections[n][1]),
                                T0 - EarlierDetections[n][2]),
                        T0 - EarlierDetections[n][2])

ApiInit ==
    \E table \in WindowTables : Started(table, AnomalyHistory(Len(EarlierDetections)))

QueryHours == {0, 1, LookbackHours}

\* GET /api/metrics/history?service=...&hours=...
get_metrics_history(service_name, hours) ==
    /\ probe.call = "none"
    /\ LET r == metrics_history(service_metrics, service_name, clock, hours)
       IN  probe' = [call |-> "get_metrics_history", service |-> service_name,
                     hours |-> hours, status |-> r.status, out |-> r.out]
    /\ UNCHANGED << store_vars, clock, events, faults, services, reg_result, wk,
                    tick, resp >>

\* GET /api/health/anomalies[?service=...][&hours=...]: the selected rows
\* by descending timestamp, rows of equal timestamp in any order
get_anomalies(service_name, hours) ==
    /\ probe.call = "none"
    /\ LET rows == AnomalyRows(metrics_anomalies, service_name, clock, hours)
       IN  \E order \in [1..Cardinality(rows) -> rows] :
              /\ \A i, j \in 1..Cardinality(rows) :
                    i < j => /\ order[i] # order[j]
                             /\ ~TextLess(order[i].timestamp, order[j].timestamp)
              /\ probe' = [call |-> "get_anomalies", service |-> service_name,
                           hours |-> hours, status |-> 200,
                           out |-> Tuple([i \in 1..Cardinality(rows) |->
                                             AnomalyEntry(order[i])])]
    /\ UNCHANGED << store_vars, clock, events, faults, services, reg_result, wk,
                    tick, resp >>

ApiNext ==
    \/ ReqStart("svc-a")
    \/ Collect("req")
    \/ Store("req")
    \/ Detect("req")
    \/ Persist("req")
    \/ \E service_name \in Names \cup {""}, hours \in QueryHours :
          get_metrics_history(service_name, hours)
    \/ \E service_name \in Names \cup {""}, hours \in QueryHours :
          get_anomalies(service_name, hours)

SpecApi == ApiInit /\ [][ApiNext]_vars

\* the positions of the recent points that the fit labels anomalous
LabelledRecent(features) ==
    LET predictions == labels_of(decision_scores(features))
    IN  SelectSeq([i \in 1..Min(RecentPoints, Len(features)) |-> i],
                  LAMBDA i : predictions[i] = 1)

\* |value - mean| > 2 * std over the whole column, with the mean sum/n and
\* the variance sum((x - mean)^2)/n, multiplied through by n^3
FarFromMean(features, idx, j) ==
    LET n == Len(features)
        sum == SumSeq([i \in 1..n |-> features[i][j]])
        dev == [i \in 1..n |-> n * features[i][j] - sum]
    IN  n * dev[idx] * dev[idx] > 4 * SumSeq([i \in 1..n |-> dev[i] * dev[i]])

ExpectedAffected(features, idx) ==
    LET at == SelectSeq([j \in 1..NFeatures |-> j],
                        LAMBDA j : FarFromMean(features, idx, j))
    IN  Join([k \in 1..Len(at) |-> metric_names[at[k]]])

Flat(features, j) == \A i \in 1..Len(features) : features[i][j] = features[1][j]

\* C12: the affected metrics of every anomaly record that detect_anomalies
\* produces are exactly the features, in the fixed order, whose value in the
\* anomalous observation is more than 2 standard deviations of the whole
\* window away from the whole window's mean; a feature that is flat over the
\* window is never listed; the record that is stored carries that list.
C12_AffectedMetrics ==
    [][\A w \in Workers :
          /\ (wk[w].pc = "detect" /\ wk'[w].pc = "persist") =>
                LET features == get_metric_features(service_metrics, wk[w].ent, clock)
                    at == LabelledRecent(features)
                    todo == wk'[w].todo
                IN  /\ Len(todo) = Len(at)
                    /\ \A k \in 1..Len(at) :
                          /\ todo[k].affected_metrics = ExpectedAffected(features, at[k])
                          /\ \A j \in 1..NFeatures :
                                Flat(features, j) =>
                                   \A x \in 1..Len(todo[k].affected_metrics) :
                                      todo[k].affected_metrics[x] # metric_names[j]
          /\ (wk[w].pc = "persist" /\ metrics_anomalies' # metrics_anomalies) =>
                /\ Len(metrics_anomalies') = Len(metrics_anomalies) + 1
                /\ metrics_anomalies'[Len(metrics_anomalies')].affected_metrics
                      = wk[w].todo[wk[w].found + 1].affected_metrics]_vars

\* a request has stored an anomaly attributed to cpu_usage alone, from a
\* window in which only the cpu of one recent observation is not flat
C12_Witness ==
    /\ resp.success
    /\ resp.anomalies_detected = 1
    /\ \E i \in 1..Len(metrics_anomalies) :
          /\ metrics_anomalies[i].service_name = "svc-a"
          /\ metrics_anomalies[i].affected_metrics = << "cpu_usage" >>
    /\ LET features == get_metric_features(service_metrics, "svc-a", clock)
       IN  /\ Len(features) = PriorRecords + 1
           /\ \A j \in 1..NFeatures : metric_names[j] # "cpu_usage" => Flat(features, j)
           /\ \E i \in 1..RecentPoints : features[i][4] = CpuHighValues[6]

\* The end-to-end scenario: the entity's window is the 15 prior records, all
\* typical with an error rate of 0.010 or 0.011, and the record the request
\* has just stored, typical but for its error rate of 0.5.
InjectedScenario(e) ==
    LET rows == RowsOf(service_metrics, e)
        injected == {r \in rows : r.error_rate = SpikeValues[2]}
    IN  /\ wk["req"].pc = "idle"
        /\ resp.success
        /\ resp.metrics.service_name = e
        /\ Cardinality(rows) = PriorRecords + 1
        /\ Cardinality(injected) = 1
        /\ \A r \in injected : r.timestamp = isoformat(clock)
        /\ \A r \in rows \ injected :
              r.error_rate \in {TypicalValues[2], NearTypicalValues[2]}
        /\ \A r \in rows :
              Payload([r EXCEPT !.error_rate = TypicalValues[2]])
                 = Payload(Values(TypicalValues))

\* C13: in the end-to-end scenario one run of detect_anomalies produces
\* exactly one anomaly record, which names error_rate among its affected
\* metrics and has the severity the thresholds give for its score.
C13_ExactlyOneAnomaly ==
    InjectedScenario("svc-a") =>
        /\ resp.anomalies_detected = 1
        /\ Cardinality({i \in 1..Len(metrics_anomalies) :
                             metrics_anomalies[i].created_at = clock}) = 1
        /\ \A i \in {k \in 1..Len(metrics_anomalies) :
                        metrics_anomalies[k].created_at = clock} :
              /\ \E x \in 1..Len(metrics_anomalies[i].affected_metrics) :
                    metrics_anomalies[i].affected_metrics[x] = "error_rate"
              /\ metrics_anomalies[i].severity
                    = SeverityFor(metrics_anomalies[i].anomaly_score)

\* the scenario with every prior record at exactly 0.010 has run and has
\* produced one anomaly record
C13_ScenarioRuns ==
    /\ InjectedScenario("svc-a")
    /\ \A r \in RowsOf(service_metrics, "svc-a") :
          r.error_rate \in {TypicalValues[2], SpikeValues[2]}
    /\ resp.anomalies_detected = 1

\* the instant, in minutes, that a timestamp text denotes
Minutes(text) == (text[1] * HoursPerDay + text[2]) * MinutesPerHour + text[3]

\* C18: the metric history query for an entity and a number of hours
\* answers 200 with exactly the entity's stored records whose instant is
\* strictly after now minus the hours, each once with its values, in
\* ascending order of time; the result is empty, not an error, when no
\* record matches; the detector's window query for the same cutoff holds
\* the same records, most recent first.
C18_HistoryQuery ==
    [][(probe.call = "none" /\ probe'.call = "get_metrics_history"
          /\ probe'.service # "") =>
          \A e \in {probe'.service}, out \in {probe'.out},
             cutoff \in {clock - probe'.hours * MinutesPerHour} :
          \A expected \in {{r \in service_metrics :
                               r.service_name = e /\ Minutes(r.timestamp) > cutoff}},
             window \in {OrderDesc(WindowRows(service_metrics, e, clock, probe'.hours))} :
              /\ probe'.status = 200
              /\ Len(out) = Cardinality(expected)
              /\ \A i \in 1..Len(out) :
                    \E r \in expected :
                        /\ r.timestamp = out[i].timestamp
                        /\ Payload(r) = Payload(out[i])
              /\ \A i, j \in 1..Len(out) :
                    i < j => Minutes(out[i].timestamp) < Minutes(out[j].timestamp)
              /\ Len(window) = Len(out)
              /\ \A i \in 1..Len(out) :
                    /\ window[i].timestamp = out[Len(out) + 1 - i].timestamp
                    /\ Payload(window[i]) = Payload(out[Len(out) + 1 - i])]_vars

\* the history of svc-a over the last hour, asked after a collection: it
\* ends with the record just stored and leaves out the stored record that
\* lies exactly on the cutoff
C18_Witness ==
    /\ probe.call = "get_metrics_history"
    /\ probe.service = "svc-a"
    /\ probe.hours = 1
    /\ probe.status = 200
    /\ Len(probe.out) >= MinSamples
    /\ probe.out[Len(probe.out)].timestamp = isoformat(clock)
    /\ \E r \in service_metrics : Key(r) = << "svc-a", isoformat(clock - MinutesPerHour) >>
    /\ \A i \in 1..Len(probe.out) :
          probe.out[i].timestamp # isoformat(clock - MinutesPerHour)

\* C19: the anomaly query answers with exactly the stored anomaly records
\* whose instant is strictly after now minus the hours, those of the named
\* entity when one is named and those of all entities otherwise, each once
\* with its fields, ordered by time, latest first.
C19_AnomalyQuery ==
    [][(probe.call = "none" /\ probe'.call = "get_anomalies") =>
          \A out \in {probe'.out}, cutoff \in {clock - probe'.hours * MinutesPerHour} :
          \A expected \in {{i \in 1..Len(metrics_anomalies) :
                               /\ probe'.service # "" =>
                                     metrics_anomalies[i].service_name = probe'.service
                               /\ Minutes(metrics_anomalies[i].timestamp) > cutoff}} :
              /\ probe'.status = 200
              /\ Len(out) = Cardinality(expected)
              /\ {out[i].id : i \in 1..Len(out)}
                    = {metrics_anomalies[i].id : i \in expected}
              /\ \A i \in 1..Len(out) :
                    \E k \in expected :
                        LET a == metrics_anomalies[k]
                        IN  /\ out[i].id = a.id
                            /\ out[i].service_name = a.service_name
                            /\ out[i].timestamp = a.timestamp
                            /\ out[i].anomaly_type = a.anomaly_type
                            /\ out[i].severity = a.severity
                            /\ out[i].anomaly_score = a.anomaly_score
                            /\ Join(out[i].affected_metrics) = a.affected_metrics
                            /\ out[i].description = a.description
              /\ \A i, j \in 1..Len(out) :
                    i < j => Minutes(out[i].timestamp) >= Minutes(out[j].timestamp)]_vars

\* the anomalies of all entities over the last hour, asked after a run that
\* stored one: the new record comes first, the records of svc-a and svc-b
\* of half an hour ago follow, and the record on the cutoff is left out
C19_Witness ==
    /\ probe.call = "get_anomalies"
    /\ probe.service = ""
    /\ probe.hours = 1
    /\ Len(probe.out) >= 3
    /\ probe.out[1].timestamp = isoformat(clock)
    /\ probe.out[1].id = Len(EarlierDetections) + 1
    /\ {probe.out[i].service_name : i \in 2..Len(probe.out)} = {"svc-a", "svc-b"}
    /\ \E i \in 1..Len(probe.out) :
          probe.out[i].affected_metrics = << "error_rate", "cpu_usage" >>
    /\ \E k \in 1..Len(metrics_anomalies) :
          /\ metrics_anomalies[k].timestamp = isoformat(clock - MinutesPerHour)
          /\ \A i \in 1..Len(probe.out) : probe.out[i].id # metrics_anomalies[k].id

\* ------------------------------------------------------ the registry on its own
MaxRegistrations == 3

RegistryNames == {"svc-a", "svc-b", "docker-web"}
ServiceTypes == {"unknown", "microservice"}

\* the running containers that discover_containers finds, by name
ContainerLists == {<< >>, << "web" >>, << "web", "db" >>, << "db", "web" >>}

\* f"docker-{container['name']}"
docker_name(container) ==
    CASE container = "web" -> "docker-web"
      [] container = "db" -> "docker-db"

Registration == events < MaxRegistrations /\ events' = events + 1

\* POST /api/services/register with a service_name and a service_type
RegisterCall(service_name, service_type) ==
    /\ Registration
    /\ register(service_name, service_type)
    /\ probe' = [call |-> "register_service", service |-> service_name]
    /\ UNCHANGED << store_vars, clock, faults, wk, tick, resp >>

\* INSERT OR IGNORE INTO services, for the containers in turn
RECURSIVE insert_or_ignore(_, _, _)
insert_or_ignore(table, containers, now) ==
    IF containers = << >> THEN table
    ELSE LET service_name == docker_name(Head(containers))
             present == \E i \in 1..Len(table) : table[i].service_name = service_name
             next == IF present THEN table
                     ELSE Append(table, ServiceRow(service_name, "docker_container",
                                                   "active", isoformat(now)))
         IN  insert_or_ignore(next, Tail(containers), now)

\* POST /api/docker/discover: DockerMonitor.register_containers_as_services
register_containers_as_services(containers) ==
    /\ Registration
    /\ services' = insert_or_ignore(services, containers, clock)
    /\ probe' = [call |-> "register_containers_as_services",
                 containers |-> containers, out |-> Len(containers)]
    /\ UNCHANGED << store_vars, clock, faults, wk, tick, resp, reg_result >>

RegistryNext ==
    \/ \E service_name \in RegistryNames, service_type \in ServiceTypes :
          RegisterCall(service_name, service_type)
    \/ \E containers \in ContainerLists : register_containers_as_services(containers)

SpecRegistry == Init /\ [][RegistryNext]_vars

NamesIn(table) == {table[i].service_name : i \in 1..Len(table)}

\* C20: no two entries of the registry have the same name.  A registration
\* of a name that is not present appends one entry with that name and
\* status 'active' and answers 200; a registration of a name that is present
\* answers 400 and changes nothing.  The auto-discovery adds one active
\* entry for every discovered name that is not present and ignores the
\* others.  Either way every existing entry stays as it was.
C20_UniqueNames ==
    /\ [](\A i, j \in 1..Len(services) :
             services[i].service_name = services[j].service_name => i = j)
    /\ [][(events' # events /\ probe'.call = "register_service") =>
             IF probe'.service \in NamesIn(services)
             THEN reg_result' = 400 /\ services' = services
             ELSE /\ reg_result' = 200
                  /\ Len(services') = Len(services) + 1
                  /\ SubSeq(services', 1, Len(services)) = services
                  /\ services'[Len(services')].service_name = probe'.service
                  /\ services'[Len(services')].status = "active"]_vars
    /\ [][(events' # events /\ probe'.call = "register_containers_as_services") =>
             LET found == {docker_name(probe'.containers[i]) :
                              i \in 1..Len(probe'.containers)}
             IN  /\ SubSeq(services', 1, Len(services)) = services
                 /\ NamesIn(services') = NamesIn(services) \cup found
                 /\ Len(services') = Len(services) + Cardinality(found \ NamesIn(services))
                 /\ \A i \in (Len(services) + 1)..Len(services') :
                       services'[i].status = "active"]_vars

\* docker-web was registered through the API, a discovery of containers
\* web and db then added docker-db alone, and a later registration of svc-a,
\* present from the start, was refused
C20_Witness ==
    /\ events = MaxRegistrations
    /\ probe.call = "register_service"
    /\ probe.service = "svc-a"
    /\ reg_result = 400
    /\ Len(services) = 4
    /\ services[3].service_name = "docker-web"
    /\ services[3].service_type \in ServiceTypes
    /\ services[4].service_name = "docker-db"
    /\ services[4].service_type = "docker_container"

\* ------------------------------------------- the detector, call after call
\* the records of entity e whose instant is within `hours` before now, most
\* recent first, by instant
RecordsWithin(e, hours) ==
    LET rows == {r \in service_metrics :
                    /\ r.service_name = e
                    /\ Minutes(r.timestamp) > clock - hours * MinutesPerHour}
        later == [r \in rows |->
                    Cardinality({q \in rows : Minutes(q.timestamp) > Minutes(r.timestamp)})]
    IN  Tuple([i \in 1..Cardinality(rows) |-> CHOOSE r \in rows : later[r] = i - 1])

FeaturesWithin(e, hours) ==
    LET rows == RecordsWithin(e, hours)
    IN  Tuple([i \in 1..Len(rows) |-> Feature(rows[i])])

\* the step of worker w in which detect_anomalies reads the window and fits
Detects(w) == wk[w].pc = "detect" /\ wk'[w].pc # "detect" /\ faults' = faults

\* C21: the anomalies that a detect_anomalies call finds are a function of
\* the entity's metric records within the lookback alone: whatever the
\* anomalies table holds, whatever either worker did before and whichever
\* worker runs it, the call finds what a fit on those records gives.
C21_DetectorIsStateless ==
    [][\A w \in Workers :
          Detects(w) =>
             \A expected \in {detect_list(FeaturesWithin(wk[w].ent, LookbackHours),
                                          wk[w].ent)} :
                IF expected = << >>
                THEN /\ wk'[w].pc # "persist"
                     /\ metrics_anomalies' = metrics_anomalies
                ELSE /\ wk'[w].pc = "persist"
                     /\ wk'[w].todo = expected]_vars

\* a detection has found an anomaly for an entity for which an earlier
\* detection, at an earlier time, had already stored one
C21_Witness ==
    \E w \in Workers :
        /\ wk[w].pc = "persist"
        /\ wk[w].found = 0
        /\ wk[w].todo # << >>
        /\ \E i \in 1..Len(metrics_anomalies) :
              /\ metrics_anomalies[i].service_name = wk[w].ent
              /\ metrics_anomalies[i].created_at < clock

\* worker w has committed the record it collected
Committed(w) == wk[w].pc \in {"detect", "persist"}

\* the anomaly record that worker w appended for the j-th anomaly it found
Appended(w, j) ==
    \E i \in 1..Len(metrics_anomalies) :
        /\ metrics_anomalies[i].service_name = wk[w].ent
        /\ metrics_anomalies[i].anomaly_score = wk[w].todo[j].anomaly_score
        /\ metrics_anomalies[i].severity = wk[w].todo[j].severity
        /\ metrics_anomalies[i].affected_metrics = wk[w].todo[j].affected_metrics
        /\ metrics_anomalies[i].created_at <= clock

\* C22: with the scheduler and a triggered collection interleaved in every
\* way, on the same entity or not: no two metric records ever share a
\* (service_name, timestamp); the record a worker has committed is there,
\* under its key, while that worker goes on to detect, and no step removes
\* a key; every anomaly a worker has appended is there, and no step removes
\* or changes an anomaly record.
C22_InterleavingIsSafe ==
    /\ [](\A r, q \in service_metrics : Key(r) = Key(q) => r = q)
    /\ [](\A w \in Workers :
             Committed(w) =>
                << wk[w].ent, isoformat(wk[w].cur.timestamp) >> \in Keys(service_metrics))
    /\ [](\A w \in Workers :
             wk[w].pc = "persist" => \A j \in 1..wk[w].found : Appended(w, j))
    /\ [][/\ Keys(service_metrics) \subseteq Keys(service_metrics')
          /\ Len(metrics_anomalies') >= Len(metrics_anomalies)
          /\ \A i \in 1..Len(metrics_anomalies) :
                metrics_anomalies'[i] = metrics_anomalies[i]]_vars

\* the scheduler and a request have worked on svc-a at the same time: the
\* records of the two collection times are both stored and each path has
\* appended an anomaly record, both of which are stored
C22_Witness ==
    /\ resp.success
    /\ resp.metrics.service_name = "svc-a"
    /\ resp.anomalies_detected = 1
    /\ \E i \in 1..Len(tick.log) :
          tick.log[i].entity = "svc-a" /\ tick.log[i].outcome = "done"
    /\ {<< "svc-a", isoformat(T0) >>, << "svc-a", isoformat(T0 + SleepMinutes) >>}
          \subseteq Keys(service_metrics)
    /\ Len(metrics_anomalies) = 2
    /\ \A i \in 1..2 :
          /\ metrics_anomalies[i].service_name = "svc-a"
          /\ metrics_anomalies[i].created_at = T0 + SleepMinutes

\* the observations of a window, most recent first, that the fit labels
LabelledAt(features) ==
    IF Len(features) < MinSamples THEN {}
    ELSE LET predictions == labels_of(decision_scores(features))
         IN  {i \in 1..Len(features) : predictions[i] = 1}

\* C23: a detect_anomalies call yields one anomaly per labelled observation
\* among the 5 of the window with the greatest timestamps, in that order,
\* each with that observation's score and attribution, and none for a
\* labelled observation outside those 5: at most 5 anomalies per call.
C23_OnlyFiveMostRecent ==
    [][\A w \in Workers :
          Detects(w) =>
             \A features \in {FeaturesWithin(wk[w].ent, LookbackHours)} :
             \A labelled \in {LabelledAt(features)} :
             \A recent \in {{i \in labelled : i <= 5}},
                found \in {IF wk'[w].pc = "persist" THEN wk'[w].todo ELSE << >>} :
                /\ Len(found) = Cardinality(recent)
                /\ Len(found) <= 5
                /\ \A k \in 1..Len(found) :
                      \E i \in recent :
                          /\ Cardinality({j \in recent : j < i}) = k - 1
                          /\ found[k].anomaly_score = decision_scores(features)[i]
                          /\ found[k].affected_metrics = ExpectedAffected(features, i)]_vars

\* a request has run detect on a window of 16 observations in which the fit
\* labels the sixth most recent one and none of the 5 before it: the call
\* found nothing and stored nothing
C23_Witness ==
    /\ resp.success
    /\ resp.anomalies_detected = 0
    /\ wk["req"].pc = "idle"
    /\ Len(metrics_anomalies) = Len(EarlierDetections)
    /\ LabelledAt(FeaturesWithin("svc-a", LookbackHours)) = {RecentPoints + 1}

\* C24: the records a detect_anomalies call appends are the anomalies it
\* returns: every record that enters the anomalies table is appended by a
\* call for the next anomaly of its list, with that anomaly's entity,
\* severity, score, affected metrics and description; the call returns only
\* once the last anomaly of its list is appended, and a call that returns an
\* empty list appends nothing.
C24_StoredEqualsReturned ==
    /\ [][metrics_anomalies' # metrics_anomalies =>
             \E w \in Workers :
                 /\ wk[w].pc = "persist"
                 /\ Len(metrics_anomalies') = Len(metrics_anomalies) + 1
                 /\ SubSeq(metrics_anomalies', 1, Len(metrics_anomalies)) = metrics_anomalies
                 /\ \E a \in {wk[w].todo[wk[w].found + 1]},
                       rec \in {metrics_anomalies'[Len(metrics_anomalies')]} :
                       /\ rec.service_name = wk[w].ent
                       /\ a.service_name = wk[w].ent
                       /\ rec.anomaly_type = a.anomaly_type
                       /\ rec.severity = a.severity
                       /\ rec.anomaly_score = a.anomaly_score
                       /\ rec.affected_metrics = a.affected_metrics
                       /\ rec.description = a.description
                 /\ IF wk[w].found + 1 = Len(wk[w].todo)
                    THEN wk'[w].pc # "persist"
                    ELSE /\ wk'[w].pc = "persist"
                         /\ wk'[w].todo = wk[w].todo
                         /\ wk'[w].found = wk[w].found + 1]_vars
    /\ [][\A w \in Workers :
             (wk[w].pc = "persist" /\ wk'[w].pc # "persist" /\ faults' = faults) =>
                 /\ wk[w].found + 1 = Len(wk[w].todo)
                 /\ Len(metrics_anomalies') = Len(metrics_anomalies) + 1
                 /\ w = "req" => resp'.anomalies_detected = Len(wk[w].todo)]_vars
    /\ [][\A w \in Workers :
             (Detects(w) /\ wk'[w].pc # "persist") =>
                 /\ metrics_anomalies' = metrics_anomalies
                 /\ w = "req" => resp'.anomalies_detected = 0]_vars

\* a call has returned two anomalies and the two records it appended, and
\* no other, follow the records that were there before
C24_Witness ==
    /\ resp.success
    /\ resp.anomalies_detected = 2
    /\ Len(metrics_anomalies) = Len(EarlierDetections) + 2
    /\ \A i \in (Len(EarlierDetections) + 1)..Len(metrics_anomalies) :
          /\ metrics_anomalies[i].service_name = "svc-a"
          /\ metrics_anomalies[i].created_at = clock
    /\ metrics_anomalies[Len(EarlierDetections) + 1].affected_metrics = << "error_rate" >>
    /\ metrics_anomalies[Len(EarlierDetections) + 2].affected_metrics = << >>

\* ------------------------------------------- records older than the lookback
OldCounts == {0, 1, 8}
RecentCounts == {5, 8, 9, 12}

\* `recent` typical rows of the last hours, one every DemoStepMinutes, and
\* `old` rows holding v from the lookback's cutoff backwards, the first of
\* them exactly on the cutoff
AgedHistory(name, old, recent, v) ==
    {MetricRow(k, name, isoformat(T0 - DemoStepMinutes * k), Values(TypicalValues)) :
        k \in 1..recent}
    \cup {MetricRow(recent + k, name,
                    isoformat(T0 - LookbackHours * MinutesPerHour
                                 - DemoStepMinutes * (k - 1)),
                    Values(v)) : k \in 1..old}

LookbackTables ==
    {AgedHistory("svc-a", old, recent, v) :
        old \in OldCounts, recent \in RecentCounts, v \in {TypicalValues, CpuHighValues}}

LookbackInit == \E table \in LookbackTables : Boot(table)

LookbackNext ==
    \/ ReqStart("svc-a")
    \/ Collect("req")
    \/ Store("req")
    \/ Detect("req")
    \/ Persist("req")

SpecLookback == LookbackInit /\ [][LookbackNext]_vars

\* C25: a detect_anomalies call counts, fits and attributes on the records
\* whose instant is strictly after now minus 24 hours and on no other: with
\* fewer than 10 such records it finds nothing and stores nothing, however
\* many older records the entity has; otherwise what it finds is what the
\* records inside the lookback alone give, with every attribution taken
\* from their means and standard deviations.
C25_LookbackBoundsTheWindow ==
    [][\A w \in Workers :
          Detects(w) =>
             \A inside \in {FeaturesWithin(wk[w].ent, LookbackHours)} :
             \A found \in {IF wk'[w].pc = "persist" THEN wk'[w].todo ELSE << >>} :
                /\ Len(inside) < 10 =>
                      /\ found = << >>
                      /\ metrics_anomalies' = metrics_anomalies
                /\ Len(inside) >= 10 =>
                      \A at \in {LabelledRecent(inside)} :
                         /\ Len(found) = Len(at)
                         /\ \A k \in 1..Len(at) :
                               /\ found[k].anomaly_score = decision_scores(inside)[at[k]]
                               /\ found[k].affected_metrics
                                     = ExpectedAffected(inside, at[k])]_vars

\* an entity has 10 or more stored records, one of them exactly on the
\* cutoff, and fewer than 10 inside the lookback, the latest with an error
\* rate of 0.5: the call found nothing and no anomaly record was written
C25_Witness ==
    /\ resp.success
    /\ resp.anomalies_detected = 0
    /\ metrics_anomalies = << >>
    /\ Cardinality(RowsOf(service_metrics, "svc-a")) >= 10
    /\ Len(RecordsWithin("svc-a", LookbackHours)) < 10
    /\ RecordsWithin("svc-a", LookbackHours)[1].error_rate = SpikeValues[2]
    /\ \E r \in service_metrics :
          Key(r) = << "svc-a", isoformat(clock - LookbackHours * MinutesPerHour) >>

\* worker w takes a step in which the statement it is at raises
Fails(w) == faults' # faults /\ wk'[w] # wk[w]

\* C26: for one entity in a tick or in a triggered collection the steps run
\* in the order collect, store, detect: a worker reaches store only from a
\* collect that returned the entity's record, reaches detect only from a
\* store that committed that record, and appends anomalies only after its
\* detect; when collect or store raises, the worker leaves the entity
\* without detecting and that step writes no anomaly record. A worker that
\* is detecting or appending holds a record of its entity that is stored.
C26_DetectOnlyAfterCollectAndStore ==
    /\ [][\A w \in Workers :
             /\ (wk'[w].pc = "store" /\ wk[w].pc # "store") =>
                   /\ wk[w].pc = "collect"
                   /\ faults' = faults
                   /\ wk'[w].ent = wk[w].ent
                   /\ wk'[w].cur.service_name = wk[w].ent
             /\ (wk'[w].pc = "detect" /\ wk[w].pc # "detect") =>
                   /\ wk[w].pc = "store"
                   /\ faults' = faults
                   /\ wk'[w].ent = wk[w].ent
                   /\ \E r \in service_metrics' :
                         /\ Key(r) = << wk[w].ent, isoformat(wk[w].cur.timestamp) >>
                         /\ Payload(r) = Payload(wk[w].cur)
                         /\ r.id = metric_seq'
             /\ (wk'[w].pc = "persist" /\ wk[w].pc # "persist") =>
                   wk[w].pc = "detect" /\ faults' = faults
             /\ (wk[w].pc \in {"collect", "store"} /\ Fails(w)) =>
                   /\ wk'[w].pc \notin {"store", "detect", "persist"} \/ wk'[w].ent # wk[w].ent
                   /\ metrics_anomalies' = metrics_anomalies
                   /\ service_metrics' = service_metrics
                   /\ w = "sched" =>
                         tick'.log[Len(tick'.log)]
                            = [entity |-> wk[w].ent, outcome |-> wk[w].pc]
                   /\ w = "req" => ~resp'.success]_vars
    /\ [](\A w \in Workers :
             /\ wk[w].pc \in {"store", "detect", "persist"} =>
                   /\ wk[w].cur.service_name = wk[w].ent
                   /\ wk[w].cur.timestamp <= clock
             /\ wk[w].pc \in {"detect", "persist"} =>
                   \E r \in service_metrics :
                      Key(r) = << wk[w].ent, isoformat(wk[w].cur.timestamp) >>
             /\ wk[w].pc \in {"collect", "store", "detect"} => wk[w].todo = << >>)

\* in the second tick the store of svc-b's record failed: the tick went on
\* and ended, svc-b has no record of that time and the tick wrote no anomaly
\* for svc-b, whose tenth record would have allowed a detection
C26_Witness ==
    /\ tick.count = 1
    /\ wk["sched"].pc = "sleep"
    /\ faults = 1
    /\ \E i \in 1..Len(tick.log) :
          tick.log[i] = [entity |-> "svc-b", outcome |-> "store"]
    /\ Cardinality(RowsOf(service_metrics, "svc-b")) = HistoryB
    /\ AnomaliesOf("svc-b") = << >>

\* no other writer than worker w has run since the start
OnlyWriter(w) ==
    IF w = "sched"
    THEN events = 0
    ELSE /\ events = 1
         /\ tick.count = 0
         /\ tick.log = << >>
         /\ wk["sched"].pc \in {"connect", "collect", "store"}

\* C27: when a worker's detect reads the window, the record that the worker
\* collected for the entity in the same tick or call is committed: the
\* window holds a record under the collected (entity, timestamp), and no
\* record of the window is more recent than the collection; with no other
\* writer at work that record carries the collected values.
C27_WindowHoldsCollectedRecord ==
    [][\A w \in Workers :
          Detects(w) =>
             \A window \in {RecordsWithin(wk[w].ent, LookbackHours)} :
                /\ window # << >>
                /\ \E i \in 1..Len(window) :
                      /\ window[i].service_name = wk[w].ent
                      /\ window[i].timestamp = isoformat(wk[w].cur.timestamp)
                      /\ \A j \in 1..(i - 1) :
                            Minutes(window[j].timestamp) > wk[w].cur.timestamp
                      /\ OnlyWriter(w) => i = 1 /\ Payload(window[i]) = Payload(wk[w].cur)
                /\ wk[w].cur.timestamp <= clock
                /\ wk[w].cur.service_name = wk[w].ent]_vars

\* the scheduler has collected a record of svc-a with an error rate of 0.5
\* and its detect has read a window whose most recent record is that one
C27_Witness ==
    /\ events = 0
    /\ wk["sched"].pc = "sleep"
    /\ tick.log = << [entity |-> "svc-a", outcome |-> "done"] >>
    /\ RecordsWithin("svc-a", LookbackHours)[1].timestamp = isoformat(clock)
    /\ RecordsWithin("svc-a", LookbackHours)[1].error_rate = SpikeValues[2]
    /\ RecordsWithin("svc-a", LookbackHours)[1].id = metric_seq

\* worker w completes one append of an anomaly record
Persists(w) == wk[w].pc = "persist" /\ faults' = faults /\ wk'[w] # wk[w]

\* C28: every anomaly that a detect call finds is appended as a new record,
\* whatever the table already holds: the record's only key is its new id,
\* and its timestamp and created_at are the instant of the detection, not
\* the timestamp of the observation; nothing makes a second identical
\* record impossible.
C28_DetectIsNotIdempotent ==
    /\ [][\A w \in Workers :
             Persists(w) =>
                \A a \in {wk[w].todo[wk[w].found + 1]}, n \in {Len(metrics_anomalies)} :
                   /\ Len(metrics_anomalies') = n + 1
                   /\ SubSeq(metrics_anomalies', 1, n) = metrics_anomalies
                   /\ \A last \in {metrics_anomalies'[n + 1]} :
                         /\ last.id = n + 1
                         /\ last.service_name = wk[w].ent
                         /\ last.timestamp = isoformat(clock)
                         /\ last.created_at = clock
                         /\ last.anomaly_score = a.anomaly_score
                         /\ last.severity = a.severity
                         /\ last.affected_metrics = a.affected_metrics
                         /\ last.description = a.description]_vars
    /\ [](\A i \in 1..Len(metrics_anomalies) : metrics_anomalies[i].id = i)

\* two detect calls have read the same window of svc-a and the table holds
\* the same anomaly twice, the two records differing in their id only
C28_Witness ==
    /\ resp.success
    /\ resp.metrics.service_name = "svc-a"
    /\ resp.anomalies_detected = 1
    /\ wk["sched"].pc = "sleep"
    /\ Len(metrics_anomalies) = 2
    /\ metrics_anomalies[1].id # metrics_anomalies[2].id
    /\ AnomalyData(metrics_anomalies[1]) = AnomalyData(metrics_anomalies[2])
    /\ RecordsWithin("svc-a", LookbackHours)[1].error_rate = SpikeValues[2]

\* the observation of svc-b collected in the first tick is still among the
\* most recent of the window in the second tick and is recorded again, with
\* the second tick's instant
C28_RecordedAgain ==
    /\ tick.count = MaxTicks
    /\ Len(metrics_anomalies) = 2
    /\ \A i \in 1..2 : metrics_anomalies[i].service_name = "svc-b"
    /\ Minutes(metrics_anomalies[1].timestamp) < Minutes(metrics_anomalies[2].timestamp)
    /\ LabelledAt(FeaturesWithin("svc-b", LookbackHours)) = {2}
    /\ Minutes(RecordsWithin("svc-b", LookbackHours)[2].timestamp)
          < Minutes(metrics_anomalies[2].timestamp)
    /\ Minutes(RecordsWithin("svc-b", LookbackHours)[1].timestamp)
          = Minutes(metrics_anomalies[2].timestamp)

\* ------------------------------------ a triggered call whose append may fail
PersistNext ==
    \/ ReqStart("svc-a")
    \/ Collect("req")
    \/ Store("req")
    \/ Detect("req")
    \/ Persist("req")
    \/ PersistFails("req")

SpecPersist == ApiInit /\ [][PersistNext]_vars

\* the append of worker w's next anomaly raises
PersistRaises(w) == wk[w].pc = "persist" /\ Fails(w)

\* the anomalies `items` of entity e are records of the table, in that order
RECURSIVE Embeds(_, _, _)
Embeds(items, table, e) ==
    IF items = << >> THEN TRUE
    ELSE IF table = << >> THEN FALSE
    ELSE IF /\ Head(table).service_name = e
            /\ Head(table).anomaly_score = Head(items).anomaly_score
            /\ Head(table).affected_metrics = Head(items).affected_metrics
            /\ Head(table).severity = Head(items).severity
         THEN Embeds(Tail(items), Tail(table), e)
         ELSE Embeds(items, Tail(table), e)

\* C29: the anomalies of a call are appended one by one. When the append of
\* the k-th raises, the table is left as it was and holds, in their order,
\* the k-1 anomalies that the call had appended (they are its last k-1
\* records when no other writer is at work); the call ends there with an
\* error and nothing of it remains to be written.
C29_PartialPersistence ==
    /\ [][\A w \in Workers :
             PersistRaises(w) =>
                \A k \in {wk[w].found + 1}, n \in {Len(metrics_anomalies)} :
                   /\ k <= Len(wk[w].todo)
                   /\ metrics_anomalies' = metrics_anomalies
                   /\ n >= k - 1
                   /\ Embeds(SubSeq(wk[w].todo, 1, k - 1), metrics_anomalies, wk[w].ent)
                   /\ OnlyWriter(w) =>
                         \A j \in 1..(k - 1) :
                            \A a \in {metrics_anomalies[n - (k - 1) + j]} :
                               /\ a.service_name = wk[w].ent
                               /\ a.anomaly_score = wk[w].todo[j].anomaly_score
                               /\ a.affected_metrics = wk[w].todo[j].affected_metrics
                               /\ a.timestamp = isoformat(a.created_at)
                   /\ wk'[w].pc # "persist"
                   /\ wk'[w].todo = << >>
                   /\ w = "req" => /\ resp'.status = 500
                                   /\ ~resp'.success
                                   /\ resp'.anomalies_detected = 0]_vars
    /\ [][\A w \in Workers :
             wk[w].pc = "persist" /\ ~PersistRaises(w) /\ wk'[w] # wk[w] =>
                /\ Len(metrics_anomalies') = Len(metrics_anomalies) + 1
                /\ wk'[w].pc = "persist" => wk'[w].found = wk[w].found + 1]_vars
    /\ [](\A w \in Workers : wk[w].pc # "persist" => wk[w].todo = << >>)

\* a call had two anomalies to append and the second append raised: the call
\* answered 500 and the first anomaly is in the table, the second is not
C29_Witness ==
    /\ faults = 1
    /\ resp.status = 500
    /\ wk["req"] = IdleWorker("req")
    /\ Cardinality(LabelledAt(FeaturesWithin("svc-a", LookbackHours))
                      \cap 1..RecentPoints) = 2
    /\ Len(metrics_anomalies) = Len(EarlierDetections) + 1
    /\ metrics_anomalies[Len(metrics_anomalies)].service_name = "svc-a"
    /\ metrics_anomalies[Len(metrics_anomalies)].created_at = clock
    /\ metrics_anomalies[Len(metrics_anomalies)].affected_metrics = << "error_rate" >>

\* ----------------------------------------------- the lowest scores of all
\* the scores that the claim names as the ones below the warning boundary
CriticalScores == {25, 35, 40, 45}

\* C30: the health score of every summary entry is at least 25, it is 100
\* minus the three penalties with no clamping at 0, and an entry is critical
\* exactly when its score is one of 25, 35, 40 and 45.
C30_ScoreNeverBelow25 ==
    Summarised =>
        \A i \in 1..Len(probe.out) :
           \A entry \in {probe.out[i]} :
              /\ entry.health_score >= 25
              /\ entry.health_score # 0
              /\ entry.health_score =
                    100 - WorstPenalty(entry.error_rate, ErrorBrackets)
                        - WorstPenalty(entry.latency.p95, LatencyBrackets)
                        - WorstPenalty(entry.resources.cpu, CpuBrackets)
              /\ entry.status = "critical" <=> entry.health_score \in CriticalScores
              /\ entry.health_score < 50 => entry.health_score \in CriticalScores

\* a summary holds a critical entry whose score is 40: the middle error
\* bracket with the worst latency and cpu brackets
C30_Witness ==
    /\ Summarised
    /\ \E i \in 1..Len(probe.out) :
          /\ probe.out[i].health_score = 40
          /\ probe.out[i].status = "critical"
          /\ probe.out[i].error_rate > 50 /\ probe.out[i].error_rate <= 100
          /\ probe.out[i].latency.p95 > 1000
          /\ probe.out[i].resources.cpu > 90

\* the other scores below the warning boundary, each in a critical entry
C30_Score35 ==
    Summarised /\ \E i \in 1..Len(probe.out) :
        probe.out[i].health_score = 35 /\ probe.out[i].status = "critical"
C30_Score45 ==
    Summarised /\ \E i \in 1..Len(probe.out) :
        probe.out[i].health_score = 45 /\ probe.out[i].status = "critical"

====
